---- MODULE Spec2Model ----
(***************************************************************************)
(* Privilege and access-control orchestration core of the Oracle user      *)
(* manager: PrivilegeService / PrivilegeDAO (grant and revoke of system,   *)
(* role, object and column privileges), PermissionChecker, ProfileService  *)
(* / ProfileDAO and the pooled OracleConnection.                           *)
(*                                                                         *)
(* A Python str is modelled as a sequence of one-character strings, so     *)
(* that str.upper(), re.match and the f-string command builders are        *)
(* computed character by character.  Every coroutine is cut at its awaits: *)
(* the code between two awaits is one atomic step.                         *)
(***************************************************************************)
EXTENDS Naturals, Sequences, FiniteSets

VARIABLES pool, checkedOut, dba_sys_privs, dba_role_privs, dba_tab_privs,
          dba_col_privs, dba_profiles, dba_users, user_info, tasks,
          granted   \* history: the system grants without admin option that
                    \* completed successfully and were not revoked since

vars == <<pool, checkedOut, dba_sys_privs, dba_role_privs, dba_tab_privs,
          dba_col_privs, dba_profiles, dba_users, user_info, tasks, granted>>

catalog == <<dba_sys_privs, dba_role_privs, dba_tab_privs, dba_col_privs,
             dba_profiles, dba_users, user_info>>

(***************************************************************************)
(* Characters and str.upper()                                              *)
(***************************************************************************)
LowerLetters == <<"a", "b", "c", "d", "e", "f", "g", "h", "i", "j", "k", "l", "m", "n", "o", "p", "q", "r", "s", "t", "u", "v", "w", "x", "y", "z">>
UpperLetters == <<"A", "B", "C", "D", "E", "F", "G", "H", "I", "J", "K", "L", "M", "N", "O", "P", "Q", "R", "S", "T", "U", "V", "W", "X", "Y", "Z">>
Digits == <<"0", "1", "2", "3", "4", "5", "6", "7", "8", "9">>

Range(s) == {s[i] : i \in DOMAIN s}

IsLetter(c) == c \in Range(LowerLetters) \cup Range(UpperLetters)

IsDigit(c) == c \in Range(Digits)

UpperChar(c) ==
    IF c \in Range(LowerLetters)
    THEN UpperLetters[CHOOSE i \in DOMAIN LowerLetters : LowerLetters[i] = c]
    ELSE c

\* str.upper()
Upper(s) == [i \in DOMAIN s |-> UpperChar(s[i])]

(***************************************************************************)
(* Sample strings the requests are drawn from.                             *)
(***************************************************************************)
s_Empty == <<>>
s_Bob == <<"B", "o", "b">>
s_bob == <<"b", "o", "b">>
s_BOB == <<"B", "O", "B">>
s_1A == <<"1", "A">>
s_BobNL == <<"B", "o", "b", "\n">>
s_r1 == <<"r", "1">>
s_R1 == <<"R", "1">>
s_R2 == <<"R", "2">>
s_r_1 == <<"r", " ", "1">>
s_r1NL == <<"r", "1", "\n">>
s_select == <<"s", "e", "l", "e", "c", "t">>
s_EXECUTE == <<"E", "X", "E", "C", "U", "T", "E">>
s_hr == <<"h", "r">>
s_HR == <<"H", "R">>
s_h_r == <<"h", " ", "r">>
s_emp == <<"e", "m", "p">>
s_EMP == <<"E", "M", "P">>
s_e_p == <<"e", " ", "p">>
s_id == <<"i", "d">>
s_ID == <<"I", "D">>
s_i_d == <<"i", " ", "d">>
s_sys == <<"s", "y", "s">>
s_System == <<"S", "y", "s", "t", "e", "m">>
s_analytics == <<"a", "n", "a", "l", "y", "t", "i", "c", "s">>
s_Analytics == <<"A", "n", "a", "l", "y", "t", "i", "c", "s">>
s_ANALYTICS == <<"A", "N", "A", "L", "Y", "T", "I", "C", "S">>
s_a_b == <<"a", "-", "b">>
s_default == <<"d", "e", "f", "a", "u", "l", "t">>
s_3 == <<"3">>
s_30 == <<"3", "0">>
s_0 == <<"0">>
s_x == <<"x">>

(***************************************************************************)
(* Literals of the source.                                                 *)
(***************************************************************************)
s_SYS == <<"S", "Y", "S">>
s_SYSTEM == <<"S", "Y", "S", "T", "E", "M">>
s_SELECT == <<"S", "E", "L", "E", "C", "T">>
s_INSERT == <<"I", "N", "S", "E", "R", "T">>
s_UPDATE == <<"U", "P", "D", "A", "T", "E">>
s_DELETE == <<"D", "E", "L", "E", "T", "E">>
s_UNLIMITED == <<"U", "N", "L", "I", "M", "I", "T", "E", "D">>
s_DEFAULT == <<"D", "E", "F", "A", "U", "L", "T">>
s_CREATE_USER == <<"C", "R", "E", "A", "T", "E", " ", "U", "S", "E", "R">>
s_ALTER_USER == <<"A", "L", "T", "E", "R", " ", "U", "S", "E", "R">>
s_DROP_USER == <<"D", "R", "O", "P", " ", "U", "S", "E", "R">>
s_CREATE_PROFILE == <<"C", "R", "E", "A", "T", "E", " ", "P", "R", "O", "F", "I", "L", "E">>
s_ALTER_PROFILE == <<"A", "L", "T", "E", "R", " ", "P", "R", "O", "F", "I", "L", "E">>
s_DROP_PROFILE == <<"D", "R", "O", "P", " ", "P", "R", "O", "F", "I", "L", "E">>
s_CREATE_ROLE == <<"C", "R", "E", "A", "T", "E", " ", "R", "O", "L", "E">>
s_ALTER_ANY_ROLE == <<"A", "L", "T", "E", "R", " ", "A", "N", "Y", " ", "R", "O", "L", "E">>
s_DROP_ANY_ROLE == <<"D", "R", "O", "P", " ", "A", "N", "Y", " ", "R", "O", "L", "E">>
s_GRANT_ANY_ROLE == <<"G", "R", "A", "N", "T", " ", "A", "N", "Y", " ", "R", "O", "L", "E">>
s_CREATE_SESSION == <<"C", "R", "E", "A", "T", "E", " ", "S", "E", "S", "S", "I", "O", "N">>
s_SELECT_ANY_TABLE == <<"S", "E", "L", "E", "C", "T", " ", "A", "N", "Y", " ", "T", "A", "B", "L", "E">>
s_GRANT_ANY_PRIVILEGE == <<"G", "R", "A", "N", "T", " ", "A", "N", "Y", " ", "P", "R", "I", "V", "I", "L", "E", "G", "E">>
t_GRANT == <<"G", "R", "A", "N", "T", " ">>
t_REVOKE == <<"R", "E", "V", "O", "K", "E", " ">>
t_TO == <<" ", "T", "O", " ">>
t_FROM == <<" ", "F", "R", "O", "M", " ">>
t_ON == <<" ", "O", "N", " ">>
t_WITH_ADMIN_OPTION == <<" ", "W", "I", "T", "H", " ", "A", "D", "M", "I", "N", " ", "O", "P", "T", "I", "O", "N">>
t_WITH_GRANT_OPTION == <<" ", "W", "I", "T", "H", " ", "G", "R", "A", "N", "T", " ", "O", "P", "T", "I", "O", "N">>
t_QUOTE == <<"\"">>
t_DOT == <<".">>
t_LPAREN == <<"(">>
t_RPAREN == <<")">>
t_COMMA_SP == <<",", " ">>
t_CREATE_PROFILE == <<"C", "R", "E", "A", "T", "E", " ", "P", "R", "O", "F", "I", "L", "E", " ">>
t_LIMIT == <<" ", "L", "I", "M", "I", "T">>
t_SESSIONS_PER_USER == <<" ", "S", "E", "S", "S", "I", "O", "N", "S", "_", "P", "E", "R", "_", "U", "S", "E", "R", " ">>
t_CONNECT_TIME == <<" ", "C", "O", "N", "N", "E", "C", "T", "_", "T", "I", "M", "E", " ">>
t_IDLE_TIME == <<" ", "I", "D", "L", "E", "_", "T", "I", "M", "E", " ">>
s_alice == <<"a", "l", "i", "c", "e">>
s_pw == <<"p", "w">>
s_USERS == <<"U", "S", "E", "R", "S">>
t_CREATE_USER == <<"C", "R", "E", "A", "T", "E", " ", "U", "S", "E", "R", " ">>
t_ALTER_USER == <<"A", "L", "T", "E", "R", " ", "U", "S", "E", "R", " ">>
t_DROP_USER == <<"D", "R", "O", "P", " ", "U", "S", "E", "R", " ">>
t_IDENTIFIED_BY == <<" ", "I", "D", "E", "N", "T", "I", "F", "I", "E", "D", " ", "B", "Y", " ">>
t_DEFAULT_TABLESPACE == <<"D", "E", "F", "A", "U", "L", "T", " ", "T", "A", "B", "L", "E", "S", "P", "A", "C", "E", " ">>
t_CASCADE == <<" ", "C", "A", "S", "C", "A", "D", "E">>
t_SP == <<" ">>
s_r2 == <<"r", "2">>
t_DROP_PROFILE == <<"D", "R", "O", "P", " ", "P", "R", "O", "F", "I", "L", "E", " ">>
s_ALICE == <<"A", "L", "I", "C", "E">>
s_ghost == <<"g", "h", "o", "s", "t">>
s_TEMP == <<"T", "E", "M", "P">>
s_NOPE == <<"N", "O", "P", "E">>
s_10M == <<"1", "0", "M">>
s_old == <<"o", "l", "d">>
t_TEMPORARY_TABLESPACE == <<"T", "E", "M", "P", "O", "R", "A", "R", "Y", " ", "T", "A", "B", "L", "E", "S", "P", "A", "C", "E", " ">>
t_QUOTA == <<"Q", "U", "O", "T", "A", " ">>
t_PROFILE == <<"P", "R", "O", "F", "I", "L", "E", " ">>
s_OPEN == <<"O", "P", "E", "N">>
s_LOCKED == <<"L", "O", "C", "K", "E", "D">>
s_EXPIRED_LOCKED == <<"E", "X", "P", "I", "R", "E", "D", " ", "&", " ", "L", "O", "C", "K", "E", "D">>
s_bcrypt == <<"$", "2", "b", "$">>

(***************************************************************************)
(* Identifier and value validators                                         *)
(***************************************************************************)
IsIdentChar(c) == IsLetter(c) \/ IsDigit(c) \/ c \in {"_", "$", "#"}

\* What a pattern ending in '$' (no re.MULTILINE) is matched against: Python's
\* '$' matches at the end of the string and also just before a final "\n".
DollarBody(s) ==
    IF Len(s) > 0 /\ s[Len(s)] = "\n" THEN SubSeq(s, 1, Len(s) - 1) ELSE s

\* PrivilegeService._validate_identifier:
\* bool(re.match(r'^[a-zA-Z][a-zA-Z0-9_$#]*$', name))
validate_identifier(name) ==
    /\ Len(name) >= 1
    /\ IsLetter(name[1])
    /\ \A i \in 2..Len(DollarBody(name)) : IsIdentChar(DollarBody(name)[i])

\* ProfileService._validate_profile_name:
\* bool(re.match(r'^[a-zA-Z][a-zA-Z0-9_]*$', profile_name))
validate_profile_name(profile_name) ==
    /\ Len(profile_name) >= 1
    /\ IsLetter(profile_name[1])
    /\ \A i \in 2..Len(DollarBody(profile_name)) :
          LET c == DollarBody(profile_name)[i]
          IN  IsLetter(c) \/ IsDigit(c) \/ c = "_"

IsSpace(c) == c \in {" ", "\n", "\t"}

RECURSIVE LStrip(_)
LStrip(s) == IF Len(s) > 0 /\ IsSpace(s[1]) THEN LStrip(Tail(s)) ELSE s

RECURSIVE RStrip(_)
RStrip(s) ==
    IF Len(s) > 0 /\ IsSpace(s[Len(s)])
    THEN RStrip(SubSeq(s, 1, Len(s) - 1))
    ELSE s

\* str.strip()
Strip(s) == RStrip(LStrip(s))

\* int(value) does not raise ValueError: optional surrounding whitespace, an
\* optional sign, then decimal digits, with single underscores allowed
\* between digits.
ParsesAsInt(value) ==
    LET t == Strip(value)
        d == IF Len(t) > 0 /\ t[1] \in {"+", "-"} THEN Tail(t) ELSE t
    IN  /\ Len(d) >= 1
        /\ IsDigit(d[1]) /\ IsDigit(d[Len(d)])
        /\ \A i \in DOMAIN d : IsDigit(d[i]) \/ d[i] = "_"
        /\ \A i \in 1..(Len(d) - 1) : ~(d[i] = "_" /\ d[i + 1] = "_")

\* int(value) > 0, for a value that parses
IntIsPositive(value) ==
    LET t == Strip(value)
    IN  /\ ~(Len(t) > 0 /\ t[1] = "-")
        /\ \E i \in DOMAIN t : IsDigit(t[i]) /\ t[i] # "0"

\* ProfileService._validate_resource_limit
validate_resource_limit(value) ==
    IF Upper(value) \in {s_UNLIMITED, s_DEFAULT}
    THEN TRUE
    ELSE ParsesAsInt(value) /\ IntIsPositive(value)

\* ProfileService._normalize_resource_limit
normalize_resource_limit(value) ==
    IF Strip(Upper(value)) \in {s_UNLIMITED, s_DEFAULT}
    THEN Strip(Upper(value))
    ELSE Strip(value)

OBJECT_PRIVILEGES == {s_SELECT, s_INSERT, s_UPDATE, s_DELETE}

COLUMN_PRIVILEGES == {s_SELECT, s_INSERT}

(***************************************************************************)
(* Command text built by the DAO methods (the f-strings)                   *)
(***************************************************************************)
Quoted(s) == t_QUOTE \o s \o t_QUOTE

\* ", ".join([f'"{c.upper()}"' for c in columns])
RECURSIVE JoinColumns(_)
JoinColumns(columns) ==
    IF columns = <<>> THEN <<>>
    ELSE IF Len(columns) = 1 THEN Quoted(Upper(columns[1]))
    ELSE Quoted(Upper(columns[1])) \o t_COMMA_SP \o JoinColumns(Tail(columns))

\* a variant that asks for the admin option whatever the flag
grant_system_privilege_text_AlwaysAdmin(privilege, grantee, with_admin) ==
    t_GRANT \o privilege \o t_TO \o Upper(grantee) \o t_WITH_ADMIN_OPTION

grant_system_privilege_text(privilege, grantee, with_admin) ==
    t_GRANT \o privilege \o t_TO \o Upper(grantee)
        \o (IF with_admin THEN t_WITH_ADMIN_OPTION ELSE <<>>)

revoke_system_privilege_text(privilege, grantee) ==
    t_REVOKE \o privilege \o t_FROM \o Upper(grantee)

grant_role_text(role, grantee, with_admin) ==
    t_GRANT \o Upper(role) \o t_TO \o Upper(grantee)
        \o (IF with_admin THEN t_WITH_ADMIN_OPTION ELSE <<>>)

revoke_role_text(role, grantee) ==
    t_REVOKE \o Upper(role) \o t_FROM \o Upper(grantee)

grant_object_privilege_text(privilege, owner, table_name, grantee, with_grant_option) ==
    t_GRANT \o privilege \o t_ON \o Quoted(Upper(owner)) \o t_DOT
        \o Quoted(Upper(table_name)) \o t_TO \o Upper(grantee)
        \o (IF with_grant_option THEN t_WITH_GRANT_OPTION ELSE <<>>)

revoke_object_privilege_text(privilege, owner, table_name, grantee) ==
    t_REVOKE \o privilege \o t_ON \o Quoted(Upper(owner)) \o t_DOT
        \o Quoted(Upper(table_name)) \o t_FROM \o Upper(grantee)

\* a variant that writes the owner as given
grant_column_privilege_text_OwnerAsGiven(privilege, owner, table_name, columns, grantee) ==
    t_GRANT \o privilege \o t_LPAREN \o JoinColumns(columns) \o t_RPAREN
        \o t_ON \o Quoted(owner) \o t_DOT \o Quoted(Upper(table_name))
        \o t_TO \o Upper(grantee)

grant_column_privilege_text(privilege, owner, table_name, columns, grantee) ==
    t_GRANT \o privilege \o t_LPAREN \o JoinColumns(columns) \o t_RPAREN
        \o t_ON \o Quoted(Upper(owner)) \o t_DOT \o Quoted(Upper(table_name))
        \o t_TO \o Upper(grantee)

revoke_column_privilege_text(privilege, owner, table_name, columns, grantee) ==
    t_REVOKE \o privilege \o t_LPAREN \o JoinColumns(columns) \o t_RPAREN
        \o t_ON \o Quoted(Upper(owner)) \o t_DOT \o Quoted(Upper(table_name))
        \o t_FROM \o Upper(grantee)

create_profile_text(profile_name, sessions_per_user, connect_time, idle_time) ==
    t_CREATE_PROFILE \o Upper(profile_name) \o t_LIMIT
        \o t_SESSIONS_PER_USER \o sessions_per_user
        \o t_CONNECT_TIME \o connect_time
        \o t_IDLE_TIME \o idle_time

\* Python's None, where an argument is Optional[str]
None == <<"None">>

t_ALTER_PROFILE == <<"A", "L", "T", "E", "R", " ", "P", "R", "O", "F", "I", "L", "E", " ">>

t_LIMIT_SP == <<" ", "L", "I", "M", "I", "T", " ">>

t_SESSIONS_PER_USER_ == <<"S", "E", "S", "S", "I", "O", "N", "S", "_", "P", "E", "R", "_", "U", "S", "E", "R", " ">>

t_CONNECT_TIME_ == <<"C", "O", "N", "N", "E", "C", "T", "_", "T", "I", "M", "E", " ">>

t_IDLE_TIME_ == <<"I", "D", "L", "E", "_", "T", "I", "M", "E", " ">>

\* alter_profile_ddl's parts, one per limit that is not None
alter_profile_parts(sessions_per_user, connect_time, idle_time) ==
    (IF sessions_per_user # None
     THEN <<t_SESSIONS_PER_USER_ \o sessions_per_user>> ELSE <<>>)
    \o (IF connect_time # None
        THEN <<t_CONNECT_TIME_ \o connect_time>> ELSE <<>>)
    \o (IF idle_time # None
        THEN <<t_IDLE_TIME_ \o idle_time>> ELSE <<>>)

\* " ".join(parts)
RECURSIVE JoinParts(_)
JoinParts(parts) ==
    IF parts = <<>> THEN <<>>
    ELSE IF Len(parts) = 1 THEN parts[1]
    ELSE parts[1] \o <<" ">> \o JoinParts(Tail(parts))

alter_profile_text(profile_name, sessions_per_user, connect_time, idle_time) ==
    t_ALTER_PROFILE \o Upper(profile_name) \o t_LIMIT_SP
        \o JoinParts(alter_profile_parts(sessions_per_user, connect_time, idle_time))

(***************************************************************************)
(* Action-Privilege Mapping                                                *)
(***************************************************************************)
REQUIRED_PRIVILEGES ==
    [create_user |-> <<s_CREATE_USER>>,
     alter_user |-> <<s_ALTER_USER>>,
     drop_user |-> <<s_DROP_USER>>,
     create_profile |-> <<s_CREATE_PROFILE>>,
     alter_profile |-> <<s_ALTER_PROFILE>>,
     drop_profile |-> <<s_DROP_PROFILE>>,
     create_role |-> <<s_CREATE_ROLE>>,
     alter_role |-> <<s_ALTER_ANY_ROLE>>,
     drop_role |-> <<s_DROP_ANY_ROLE>>,
     grant_role |-> <<s_GRANT_ANY_ROLE>>,
     login |-> <<s_CREATE_SESSION>>,
     select_any_table |-> <<s_SELECT_ANY_TABLE>>,
     grant_system_privilege |-> <<s_GRANT_ANY_PRIVILEGE>>]

\* REQUIRED_PRIVILEGES.get(action, [])
RequiredPrivs(action) ==
    IF action \in DOMAIN REQUIRED_PRIVILEGES THEN REQUIRED_PRIVILEGES[action] ELSE <<>>

\* a variant that compares the name as given, without upper-casing it
IsAdminUser_CaseSensitive(username) == username \in {s_SYS, s_SYSTEM}

\* username.upper() in ("SYS", "SYSTEM")
IsAdminUser(username) == Upper(username) \in {s_SYS, s_SYSTEM}

(***************************************************************************)
(* UserDAO: the text of its commands                                       *)
(***************************************************************************)
\* create_user_ddl without temporary tablespace, quota or profile:
\* " ".join of its two parts
create_user_text(username, password, default_tablespace) ==
    t_CREATE_USER \o username \o t_IDENTIFIED_BY \o t_QUOTE \o password
        \o t_QUOTE \o t_SP \o t_DEFAULT_TABLESPACE \o default_tablespace

\* alter_user_ddl: its statement for a password
alter_user_text(username, password) ==
    t_ALTER_USER \o username \o t_IDENTIFIED_BY \o t_QUOTE \o password \o t_QUOTE

\* a variant that sends the profile statement first
alter_user_fields_ProfileFirst(r) ==
    SelectSeq(<<"profile", "password", "default_tablespace",
                "temporary_tablespace", "quota">>, LAMBDA f : r[f] # <<>>)

\* alter_user_ddl: the arguments it sends a statement for ("if password:",
\* "if default_tablespace:", ...), in the order of its if statements
alter_user_fields(r) ==
    SelectSeq(<<"password", "default_tablespace", "temporary_tablespace",
                "quota", "profile">>, LAMBDA f : r[f] # <<>>)

\* alter_user_ddl: the statement it sends for the argument f
alter_user_statement(username, r, f) ==
    CASE f = "password" -> alter_user_text(username, r.password)
      [] f = "default_tablespace" ->
            t_ALTER_USER \o username \o t_SP \o t_DEFAULT_TABLESPACE
                \o r.default_tablespace
      [] f = "temporary_tablespace" ->
            t_ALTER_USER \o username \o t_SP \o t_TEMPORARY_TABLESPACE
                \o r.temporary_tablespace
      [] f = "quota" ->
            t_ALTER_USER \o username \o t_SP \o t_QUOTA \o r.quota \o t_ON
                \o (IF r.default_tablespace # <<>> THEN r.default_tablespace
                    ELSE s_USERS)
      [] f = "profile" ->
            t_ALTER_USER \o username \o t_SP \o t_PROFILE \o r.profile

drop_user_text(username, cascade) ==
    t_DROP_USER \o username \o (IF cascade THEN t_CASCADE ELSE <<>>)

\* UserService._validate_username: re.match(r'^[a-zA-Z0-9_]+$', username)
validate_username(username) ==
    LET body == DollarBody(username) IN
    /\ Len(body) >= 1
    /\ \A i \in DOMAIN body : IsLetter(body[i]) \/ IsDigit(body[i]) \/ body[i] = "_"

\* ProfileDAO.drop_profile_ddl
drop_profile_text(profile_name, cascade) ==
    t_DROP_PROFILE \o Upper(profile_name) \o (IF cascade THEN t_CASCADE ELSE <<>>)

(***************************************************************************)
(* Requests, results and tasks                                             *)
(***************************************************************************)
Tasks == {1}

NoReq ==
    [op |-> "none", privilege |-> <<>>, grantee |-> <<>>, with_admin |-> FALSE,
     role |-> <<>>, owner |-> <<>>, table_name |-> <<>>, columns |-> <<>>,
     with_grant_option |-> FALSE, username |-> <<>>, action |-> "",
     raise_error |-> FALSE, profile_name |-> <<>>, sessions_per_user |-> None,
     connect_time |-> None, idle_time |-> None, name |-> <<>>, value |-> <<>>,
     current_user |-> <<>>, password |-> <<>>, default_tablespace |-> <<>>,
     cascade |-> FALSE, route |-> "", session_username |-> <<>>,
     temporary_tablespace |-> <<>>, quota |-> <<>>, profile |-> <<>>]

\* a request: the given arguments, every other field at its default
Req(r) == [f \in DOMAIN NoReq |-> IF f \in DOMAIN r THEN r[f] ELSE NoReq[f]]

NoResult == [kind |-> "none", val |-> "", msg |-> ""]

Return(v) == [kind |-> "return", val |-> v, msg |-> ""]

Raise(cls, msg) == [kind |-> "raise", val |-> cls, msg |-> msg]

\* pc: the await a coroutine is suspended at; stage: the DAO method it is in;
\* pending: what the DAO's try block produced, held across its finally;
\* acq, rel, queries, cmds: the I/O the operation has done so far;
\* acq_failed, query_failed: whether the pool or a catalog query failed it;
\* faults: how many of has_privilege's queries have failed in this call;
\* session: the username in the request's session; user_info, is_valid,
\* oracle_user: the local variables of AuthService.login;
\* sent_at, applied_at: where the call's latest command stands among all the
\* commands in flight, in the order the engine received and applied them.
IdleTask ==
    [pc |-> "idle", req |-> NoReq, stage |-> "none", i |-> 0,
     pending |-> NoResult, outcome |-> NoResult,
     acq |-> 0, rel |-> 0, queries |-> 0, cmds |-> <<>>, diags |-> <<>>,
     rows |-> <<>>, acq_failed |-> FALSE, query_failed |-> FALSE, faults |-> 0,
     sent_at |-> 0, applied_at |-> 0,
     session |-> <<>>, user_info |-> <<>>, is_valid |-> FALSE, oracle_user |-> <<>>]

New(r) == [IdleTask EXCEPT !.req = r]

Done(tk, out) == [tk EXCEPT !.pc = "done", !.outcome = out]

AllIdle == \A u \in Tasks : tasks[u].pc = "idle"

\* the commands the calls in flight have sent, and those the engine applied
SentSoFar ==
    Cardinality(UNION {{<<u, k>> : k \in DOMAIN tasks[u].cmds} : u \in DOMAIN tasks})

AppliedSoFar ==
    Cardinality(UNION {{<<u, k>> : k \in {j \in DOMAIN tasks[u].diags :
                                            tasks[u].diags[j] = "OK"}} :
                        u \in DOMAIN tasks})

DDLStages ==
    {"grant_system_privilege_ddl", "revoke_system_privilege_ddl",
     "grant_role_ddl", "revoke_role_ddl",
     "grant_object_privilege_ddl", "revoke_object_privilege_ddl",
     "grant_column_privilege_ddl", "revoke_column_privilege_ddl",
     "create_profile_ddl", "alter_profile_ddl", "drop_profile_ddl",
     "create_user_ddl", "alter_user_ddl", "drop_user_ddl"}

(***************************************************************************)
(* The database engine, as the DAO sees it through cursor.execute          *)
(***************************************************************************)
EnginePrincipals == {s_BOB, s_R1, s_R2}

EngineRoles == {s_R1, s_R2}

EngineTables == {<<s_HR, s_EMP>>}

EngineColumns == {s_ID}

EngineSysPrivs == {REQUIRED_PRIVILEGES[a][1] : a \in DOMAIN REQUIRED_PRIVILEGES}

\* an unquoted name in command text: surrounding white space is not part of it
Unquoted(s) == Upper(Strip(s))

HoldsSys(g, p) == \E f \in dba_sys_privs : f.grantee = g /\ f.privilege = p

HoldsRole(g, r) == \E f \in dba_role_privs : f.grantee = g /\ f.granted_role = r

\* the roles a set of principals holds, directly or through n more grants
RECURSIVE RolesWithin(_, _)
RolesWithin(S, n) ==
    IF n = 0 THEN S
    ELSE RolesWithin(S \cup {f.granted_role :
                                f \in {h \in dba_role_privs : h.grantee \in S}},
                     n - 1)

\* granting role ro to g would make ro a member of itself
CircularGrant(ro, g) == g \in RolesWithin({ro}, Cardinality(EngineRoles))

HoldsTab(g, o, tn, p) ==
    \E f \in dba_tab_privs :
        f.grantee = g /\ f.owner = o /\ f.table_name = tn /\ f.privilege = p

HoldsCol(g, o, tn, c, p) ==
    \E f \in dba_col_privs :
        /\ f.grantee = g /\ f.owner = o /\ f.table_name = tn
        /\ f.column_name = c /\ f.privilege = p

YesNo(b) == IF b THEN "YES" ELSE "NO"

\* The tablespaces of the database, and those of them that are temporary.
EngineTablespaces == {s_USERS, s_TEMP}

TemporaryTablespaces == {s_TEMP}

\* The account ALICE as CREATE USER ALICE IDENTIFIED BY "old" DEFAULT
\* TABLESPACE USERS leaves it.
Accounts0 ==
    {[username |-> s_ALICE, password |-> s_old, default_tablespace |-> s_USERS,
      temporary_tablespace |-> s_TEMP, quota |-> <<>>, profile |-> s_DEFAULT,
      account_status |-> s_OPEN]}

HasAccount(u) == \E a \in dba_users : a.username = u

\* alter_user_ddl: the argument whose statement was sent last
alter_user_field(tk) == alter_user_fields(tk.req)[Len(tk.cmds)]

\* what an ALTER USER statement for the argument f leaves in dba_users: the
\* engine folds the unquoted names of tablespaces and profiles to upper case
AlteredValue(r, f) == IF f \in {"password", "quota"} THEN r[f] ELSE Upper(r[f])

\* The diagnostic the engine answers a dispatched command with when it must
\* refuse it, "OK" when the command is well formed and applicable.
EngineVerdict(tk) ==
    LET r == tk.req
        g == Unquoted(r.grantee)
        o == Upper(r.owner)
        tn == Upper(r.table_name)
        p == Upper(r.privilege)
        cs == {Upper(r.columns[k]) : k \in DOMAIN r.columns}
    IN
    CASE tk.stage \in {"grant_system_privilege_ddl", "revoke_system_privilege_ddl"} ->
            IF Unquoted(r.privilege) \notin EngineSysPrivs THEN "ORA-00990"
            ELSE IF g \notin EnginePrincipals THEN "ORA-01917"
            ELSE IF tk.stage = "revoke_system_privilege_ddl"
                    /\ ~HoldsSys(g, Unquoted(r.privilege)) THEN "ORA-01952"
            ELSE "OK"
      [] tk.stage \in {"grant_role_ddl", "revoke_role_ddl"} ->
            IF Unquoted(r.role) \notin EngineRoles THEN "ORA-01919"
            ELSE IF g \notin EnginePrincipals THEN "ORA-01917"
            ELSE IF tk.stage = "grant_role_ddl"
                    /\ CircularGrant(Unquoted(r.role), g) THEN "ORA-01934"
            ELSE IF tk.stage = "revoke_role_ddl"
                    /\ ~HoldsRole(g, Unquoted(r.role)) THEN "ORA-01951"
            ELSE "OK"
      [] tk.stage \in {"grant_object_privilege_ddl", "revoke_object_privilege_ddl"} ->
            IF p \notin OBJECT_PRIVILEGES THEN "ORA-00990"
            ELSE IF <<o, tn>> \notin EngineTables THEN "ORA-00942"
            ELSE IF g \notin EnginePrincipals THEN "ORA-01917"
            ELSE IF tk.stage = "revoke_object_privilege_ddl"
                    /\ ~HoldsTab(g, o, tn, p) THEN "ORA-01927"
            ELSE "OK"
      [] tk.stage \in {"grant_column_privilege_ddl", "revoke_column_privilege_ddl"} ->
            IF p \notin COLUMN_PRIVILEGES THEN "ORA-00990"
            ELSE IF r.columns = <<>> THEN "ORA-00936"
            ELSE IF <<o, tn>> \notin EngineTables THEN "ORA-00942"
            ELSE IF ~(cs \subseteq EngineColumns) THEN "ORA-00904"
            ELSE IF g \notin EnginePrincipals THEN "ORA-01917"
            ELSE IF tk.stage = "revoke_column_privilege_ddl"
                    /\ \E c \in cs : ~HoldsCol(g, o, tn, c, p) THEN "ORA-01927"
            ELSE "OK"
      [] tk.stage = "create_profile_ddl" ->
            IF Upper(Strip(r.profile_name)) \in dba_profiles THEN "ORA-02379"
            ELSE "OK"
      [] tk.stage = "alter_profile_ddl" ->
            IF Upper(Strip(r.profile_name)) \notin dba_profiles THEN "ORA-02380"
            ELSE "OK"
      [] tk.stage = "drop_profile_ddl" ->
            IF Upper(Strip(r.profile_name)) = s_DEFAULT THEN "ORA-02381"
            ELSE IF Upper(Strip(r.profile_name)) \notin dba_profiles THEN "ORA-02380"
            ELSE IF ~r.cascade /\ \E a \in dba_users :
                                    a.profile = Upper(Strip(r.profile_name))
                 THEN "ORA-02382"
            ELSE "OK"
      [] tk.stage = "create_user_ddl" ->
            IF HasAccount(Upper(r.username)) THEN "ORA-01920"
            ELSE IF Upper(r.default_tablespace) \notin EngineTablespaces
                 THEN "ORA-00959"
            ELSE "OK"
      [] tk.stage = "drop_user_ddl" ->
            IF ~HasAccount(Upper(r.username)) THEN "ORA-01918" ELSE "OK"
      [] tk.stage = "alter_user_ddl" ->
            LET f == alter_user_field(tk)
                ts == Upper(IF f = "quota" /\ r.default_tablespace = <<>>
                            THEN s_USERS
                            ELSE IF f = "quota" THEN r.default_tablespace
                            ELSE r[f])
            IN  IF ~HasAccount(Upper(r.username)) THEN "ORA-01918"
                ELSE IF f = "password" THEN "OK"
                ELSE IF f = "profile"
                     THEN IF Upper(r.profile) \in dba_profiles THEN "OK"
                          ELSE "ORA-02380"
                ELSE IF ts \notin EngineTablespaces THEN "ORA-00959"
                ELSE IF f = "default_tablespace" /\ ts \in TemporaryTablespaces
                     THEN "ORA-12910"
                ELSE IF f = "temporary_tablespace" /\ ts \notin TemporaryTablespaces
                     THEN "ORA-12911"
                ELSE IF f = "quota" /\ ts \in TemporaryTablespaces
                     THEN "ORA-30041"
                ELSE "OK"

\* A command the engine could apply may still be refused for a reason outside
\* the model (the connecting account's own privileges, a lost session).
EngineOutcomes(tk) ==
    IF EngineVerdict(tk) = "OK" THEN {"OK", "ORA-01031"} ELSE {EngineVerdict(tk)}

\* a variant in which a revoke takes the privilege or role from every grantee
EngineApply_RevokeFromAll(tk) ==
    LET same == [sys |-> dba_sys_privs, role |-> dba_role_privs,
                 tab |-> dba_tab_privs, col |-> dba_col_privs,
                 prof |-> dba_profiles, users |-> dba_users]
    IN  IF tk.stage = "revoke_system_privilege_ddl"
        THEN [same EXCEPT !.sys = {f \in dba_sys_privs :
                                      f.privilege # Unquoted(tk.req.privilege)}]
        ELSE IF tk.stage = "revoke_role_ddl"
        THEN [same EXCEPT !.role = {f \in dba_role_privs :
                                       f.granted_role # Unquoted(tk.req.role)}]
        ELSE same

\* a variant in which a command the engine accepted leaves no trace
EngineApply_NoEffect(tk) ==
    [sys |-> dba_sys_privs, role |-> dba_role_privs, tab |-> dba_tab_privs,
     col |-> dba_col_privs, prof |-> dba_profiles, users |-> dba_users]

\* The catalog after the engine has applied the command.
EngineApply(tk) ==
    LET r == tk.req
        g == Unquoted(r.grantee)
        o == Upper(r.owner)
        tn == Upper(r.table_name)
        p == Upper(r.privilege)
        sp == Unquoted(r.privilege)
        ro == Unquoted(r.role)
        cs == {Upper(r.columns[k]) : k \in DOMAIN r.columns}
        same == [sys |-> dba_sys_privs, role |-> dba_role_privs,
                 tab |-> dba_tab_privs, col |-> dba_col_privs,
                 prof |-> dba_profiles, users |-> dba_users]
    IN
    CASE tk.stage = "grant_system_privilege_ddl" ->
            [same EXCEPT !.sys =
                {f \in dba_sys_privs : ~(f.grantee = g /\ f.privilege = sp)}
                \cup {[grantee |-> g, privilege |-> sp,
                       admin_option |-> YesNo(r.with_admin \/
                           \E f \in dba_sys_privs :
                               f.grantee = g /\ f.privilege = sp
                               /\ f.admin_option = "YES")]}]
      [] tk.stage = "revoke_system_privilege_ddl" ->
            [same EXCEPT !.sys =
                {f \in dba_sys_privs : ~(f.grantee = g /\ f.privilege = sp)}]
      [] tk.stage = "grant_role_ddl" ->
            [same EXCEPT !.role =
                {f \in dba_role_privs : ~(f.grantee = g /\ f.granted_role = ro)}
                \cup {[grantee |-> g, granted_role |-> ro,
                       admin_option |-> YesNo(r.with_admin \/
                           \E f \in dba_role_privs :
                               f.grantee = g /\ f.granted_role = ro
                               /\ f.admin_option = "YES")]}]
      [] tk.stage = "revoke_role_ddl" ->
            [same EXCEPT !.role =
                {f \in dba_role_privs : ~(f.grantee = g /\ f.granted_role = ro)}]
      [] tk.stage = "grant_object_privilege_ddl" ->
            [same EXCEPT !.tab =
                {f \in dba_tab_privs :
                    ~(f.grantee = g /\ f.owner = o /\ f.table_name = tn
                      /\ f.privilege = p)}
                \cup {[grantee |-> g, owner |-> o, table_name |-> tn,
                       privilege |-> p,
                       grantable |-> YesNo(r.with_grant_option \/
                           \E f \in dba_tab_privs :
                               f.grantee = g /\ f.owner = o /\ f.table_name = tn
                               /\ f.privilege = p /\ f.grantable = "YES")]}]
      [] tk.stage = "revoke_object_privilege_ddl" ->
            [same EXCEPT !.tab =
                {f \in dba_tab_privs :
                    ~(f.grantee = g /\ f.owner = o /\ f.table_name = tn
                      /\ f.privilege = p)}]
      [] tk.stage = "grant_column_privilege_ddl" ->
            [same EXCEPT !.col = dba_col_privs \cup
                {[grantee |-> g, owner |-> o, table_name |-> tn,
                  column_name |-> c, privilege |-> p, grantable |-> "NO"] :
                    c \in cs}]
      [] tk.stage = "revoke_column_privilege_ddl" ->
            [same EXCEPT !.col =
                {f \in dba_col_privs :
                    ~(f.grantee = g /\ f.owner = o /\ f.table_name = tn
                      /\ f.column_name \in cs /\ f.privilege = p)}]
      [] tk.stage = "create_profile_ddl" ->
            [same EXCEPT !.prof = dba_profiles \cup {Upper(Strip(r.profile_name))}]
      [] tk.stage = "alter_profile_ddl" -> same
      [] tk.stage = "drop_profile_ddl" ->
            [same EXCEPT !.prof = dba_profiles \ {Upper(Strip(r.profile_name))},
                         !.users =
                            {IF a.profile = Upper(Strip(r.profile_name))
                             THEN [a EXCEPT !.profile = s_DEFAULT]
                             ELSE a : a \in dba_users}]
      [] tk.stage = "create_user_ddl" ->
            [same EXCEPT !.users = dba_users \cup
                {[username |-> Upper(r.username), password |-> r.password,
                  default_tablespace |-> Upper(r.default_tablespace),
                  temporary_tablespace |-> s_TEMP, quota |-> <<>>,
                  profile |-> s_DEFAULT, account_status |-> s_OPEN]}]
      [] tk.stage = "drop_user_ddl" ->
            [same EXCEPT !.users =
                {a \in dba_users : a.username # Upper(r.username)}]
      [] tk.stage = "alter_user_ddl" ->
            [same EXCEPT !.users =
                {IF a.username = Upper(r.username)
                 THEN [a EXCEPT ![alter_user_field(tk)] =
                          AlteredValue(r, alter_user_field(tk))]
                 ELSE a : a \in dba_users}]

(***************************************************************************)
(* PrivilegeService: the checks each operation makes before its DAO call   *)
(***************************************************************************)
BadGrantee(grantee) == grantee = <<>> \/ ~validate_identifier(grantee)

grant_system_privilege_check(r) ==
    IF BadGrantee(r.grantee) THEN Raise("ValueError", "invalid grantee")
    ELSE IF r.privilege = <<>> THEN Raise("ValueError", "privilege required")
    ELSE NoResult

revoke_system_privilege_check(r) ==
    IF BadGrantee(r.grantee) THEN Raise("ValueError", "invalid grantee")
    ELSE IF r.privilege = <<>> THEN Raise("ValueError", "privilege required")
    ELSE NoResult

grant_role_check(r) ==
    IF BadGrantee(r.grantee) THEN Raise("ValueError", "invalid grantee")
    ELSE IF r.role = <<>> \/ ~validate_identifier(r.role)
         THEN Raise("ValueError", "invalid role")
    ELSE NoResult

revoke_role_check(r) ==
    IF BadGrantee(r.grantee) THEN Raise("ValueError", "invalid grantee")
    ELSE IF r.role = <<>> \/ ~validate_identifier(r.role)
         THEN Raise("ValueError", "invalid role")
    ELSE NoResult

grant_object_privilege_check(r) ==
    IF BadGrantee(r.grantee) THEN Raise("ValueError", "invalid grantee")
    ELSE IF Upper(r.privilege) \notin OBJECT_PRIVILEGES
         THEN Raise("ValueError", "invalid privilege")
    ELSE IF r.owner = <<>> \/ r.table_name = <<>>
         THEN Raise("ValueError", "owner and table required")
    ELSE NoResult

revoke_object_privilege_check(r) ==
    IF BadGrantee(r.grantee) THEN Raise("ValueError", "invalid grantee")
    ELSE NoResult

grant_column_privilege_check(r) ==
    IF BadGrantee(r.grantee) THEN Raise("ValueError", "invalid grantee")
    ELSE IF Upper(r.privilege) \notin COLUMN_PRIVILEGES
         THEN Raise("ValueError", "invalid column privilege")
    ELSE IF r.columns = <<>> THEN Raise("ValueError", "column required")
    ELSE NoResult

revoke_column_privilege_check(r) ==
    IF BadGrantee(r.grantee) THEN Raise("ValueError", "invalid grantee")
    ELSE NoResult

\* ProfileService.create_profile, before profile_exists
create_profile_name_check(r) ==
    IF ~validate_profile_name(r.profile_name)
    THEN Raise("ValueError", "invalid profile name")
    ELSE IF Upper(r.profile_name) = s_DEFAULT
         THEN Raise("ValueError", "reserved name")
    ELSE NoResult

\* ProfileService.create_profile, after profile_exists
create_profile_limits_check(r) ==
    IF ~validate_resource_limit(r.sessions_per_user)
    THEN Raise("ValueError", "invalid SESSIONS_PER_USER")
    ELSE IF ~validate_resource_limit(r.connect_time)
         THEN Raise("ValueError", "invalid CONNECT_TIME")
    ELSE IF ~validate_resource_limit(r.idle_time)
         THEN Raise("ValueError", "invalid IDLE_TIME")
    ELSE NoResult

\* ProfileService.update_profile, after profile_exists: the limits given
update_profile_limits_check(r) ==
    IF r.sessions_per_user # None /\ ~validate_resource_limit(r.sessions_per_user)
    THEN Raise("ValueError", "invalid SESSIONS_PER_USER")
    ELSE IF r.connect_time # None /\ ~validate_resource_limit(r.connect_time)
         THEN Raise("ValueError", "invalid CONNECT_TIME")
    ELSE IF r.idle_time # None /\ ~validate_resource_limit(r.idle_time)
         THEN Raise("ValueError", "invalid IDLE_TIME")
    ELSE NoResult

\* update_profile's normalized_values: only the limits given
NormalizedOrNone(value) ==
    IF value = None THEN None ELSE normalize_resource_limit(value)

\* The command text a DAO method sends, from the arguments the service
\* passes it (object and column privileges are passed upper-cased).
DdlText(tk) ==
    LET r == tk.req IN
    CASE tk.stage = "grant_system_privilege_ddl" ->
            grant_system_privilege_text(r.privilege, r.grantee, r.with_admin)
      [] tk.stage = "revoke_system_privilege_ddl" ->
            revoke_system_privilege_text(r.privilege, r.grantee)
      [] tk.stage = "grant_role_ddl" ->
            grant_role_text(r.role, r.grantee, r.with_admin)
      [] tk.stage = "revoke_role_ddl" ->
            revoke_role_text(r.role, r.grantee)
      [] tk.stage = "grant_object_privilege_ddl" ->
            grant_object_privilege_text(Upper(r.privilege), r.owner,
                r.table_name, r.grantee, r.with_grant_option)
      [] tk.stage = "revoke_object_privilege_ddl" ->
            revoke_object_privilege_text(Upper(r.privilege), r.owner,
                r.table_name, r.grantee)
      [] tk.stage = "grant_column_privilege_ddl" ->
            grant_column_privilege_text(Upper(r.privilege), r.owner,
                r.table_name, r.columns, r.grantee)
      [] tk.stage = "revoke_column_privilege_ddl" ->
            revoke_column_privilege_text(Upper(r.privilege), r.owner,
                r.table_name, r.columns, r.grantee)
      [] tk.stage = "create_profile_ddl" ->
            create_profile_text(r.profile_name,
                normalize_resource_limit(r.sessions_per_user),
                normalize_resource_limit(r.connect_time),
                normalize_resource_limit(r.idle_time))
      [] tk.stage = "alter_profile_ddl" ->
            alter_profile_text(r.profile_name,
                NormalizedOrNone(r.sessions_per_user),
                NormalizedOrNone(r.connect_time),
                NormalizedOrNone(r.idle_time))
      [] tk.stage = "drop_profile_ddl" ->
            drop_profile_text(r.profile_name, r.cascade)
      [] tk.stage = "create_user_ddl" ->
            create_user_text(Upper(r.username), r.password, r.default_tablespace)
      [] tk.stage = "alter_user_ddl" ->
            alter_user_statement(Upper(r.username), r,
                                 alter_user_fields(r)[Len(tk.cmds) + 1])
      [] tk.stage = "drop_user_ddl" ->
            drop_user_text(Upper(r.username), r.cascade)

(***************************************************************************)
(* OracleConnection                                                        *)
(***************************************************************************)
\* get_connection, up to its await of pool.acquire(), for a pool that is p
get_connection(tk, stage, p) ==
    IF ~p
    THEN Done(tk, Raise("RuntimeError", "pool not initialised"))
    ELSE [tk EXCEPT !.pc = "acquire", !.stage = stage]

\* release_connection: "if self.pool: await self.pool.release(conn)"
release_connection(tk) == IF pool THEN [tk EXCEPT !.rel = @ + 1] ELSE tk

CheckedOutAfterRelease == IF pool THEN checkedOut - 1 ELSE checkedOut

(***************************************************************************)
(* PrivilegeDAO.has_privilege: its two catalog queries                     *)
(***************************************************************************)
\* SELECT COUNT(*) FROM dba_sys_privs WHERE grantee = :username AND
\* privilege = :privilege, with username=username.upper(); row[0] > 0
has_privilege_direct(username, privilege) ==
    \E f \in dba_sys_privs :
        f.grantee = Upper(username) /\ f.privilege = privilege

\* a variant of the second query that looks at no role at all
has_privilege_via_role_NoRoles(username, privilege) ==
    \E f \in dba_sys_privs :
        /\ f.privilege = privilege
        /\ f.grantee \in {}

\* a variant of the second query that also follows roles granted to roles
has_privilege_via_role_TwoHops(username, privilege) ==
    LET direct == {g.granted_role :
                     g \in {h \in dba_role_privs : h.grantee = Upper(username)}}
        second == {g.granted_role :
                     g \in {h \in dba_role_privs : h.grantee \in direct}}
    IN  \E f \in dba_sys_privs :
            /\ f.privilege = privilege
            /\ f.grantee \in direct \cup second

\* ... WHERE grantee IN (SELECT granted_role FROM dba_role_privs WHERE
\* grantee = :username) AND privilege = :privilege
has_privilege_via_role(username, privilege) ==
    \E f \in dba_sys_privs :
        /\ f.privilege = privilege
        /\ f.grantee \in {g.granted_role :
                            g \in {h \in dba_role_privs :
                                      h.grantee = Upper(username)}}

\* ProfileDAO.profile_exists: SELECT COUNT(*) FROM dba_profiles WHERE
\* profile = :profile_name, with profile_name=profile_name.upper()
profile_exists_count(profile_name) ==
    Cardinality({p \in dba_profiles : p = Upper(profile_name)})

(***************************************************************************)
(* Inputs                                                                  *)
(***************************************************************************)
MaxCols == 2

\* every list of at most MaxCols of the given column names
ColumnLists(names) == UNION {[1..n -> names] : n \in 0..MaxCols}

\* the requests of the specifications of one component
Wide ==
    [grantees |-> {s_Bob, s_1A, s_Empty, s_BobNL},
     sys_privileges |-> {s_CREATE_USER, s_Empty},
     roles |-> {s_r1, s_Empty, s_r_1, s_r1NL},
     privileges |-> {s_select, s_EXECUTE},
     owners |-> {s_hr, s_Empty, s_h_r},
     table_names |-> {s_emp, s_Empty},
     columns |-> ColumnLists({s_id, s_i_d}),
     usernames |-> {s_bob, s_sys, s_System},
     actions |-> {"create_user", "create_profile", "view_projects"},
     profile_names |-> {s_analytics, s_Analytics, s_a_b, s_default},
     limits |-> {s_30, s_UNLIMITED, s_0},
     new_limits |-> {None, s_30, s_0}]

\* the requests of the specification of all components together
Narrow ==
    [grantees |-> {s_Bob, s_Empty},
     sys_privileges |-> {s_CREATE_USER},
     roles |-> {s_r1},
     privileges |-> {s_select},
     owners |-> {s_hr},
     table_names |-> {s_emp},
     columns |-> {<<s_id>>},
     usernames |-> {s_bob, s_sys},
     actions |-> {"create_user"},
     profile_names |-> {s_analytics},
     limits |-> {s_30, s_0},
     new_limits |-> {None, s_30}]

(***************************************************************************)
(* Initial states                                                          *)
(***************************************************************************)
\* The application after import: no pool yet, nothing in flight, a database
\* holding only the built-in DEFAULT profile and no grants.
Init ==
    /\ pool = FALSE
    /\ checkedOut = 0
    /\ dba_sys_privs = {}
    /\ dba_role_privs = {}
    /\ dba_tab_privs = {}
    /\ dba_col_privs = {}
    /\ dba_profiles = {s_DEFAULT}
    /\ dba_users = Accounts0
    /\ user_info = {}
    /\ granted = {}
    /\ tasks = [t \in Tasks |-> IdleTask]

\* The same application in front of a database whose grants of CREATE USER
\* and whose role-grant graph over BOB, R1 and R2 are arbitrary.
InitPerm ==
    /\ pool = FALSE
    /\ checkedOut = 0
    /\ dba_sys_privs \in SUBSET
          {[grantee |-> g, privilege |-> s_CREATE_USER, admin_option |-> "NO"] :
              g \in EnginePrincipals}
    /\ dba_role_privs \in SUBSET
          {[grantee |-> g, granted_role |-> ro, admin_option |-> "NO"] :
              g \in EnginePrincipals, ro \in EngineRoles}
    /\ dba_tab_privs = {}
    /\ dba_col_privs = {}
    /\ dba_profiles = {s_DEFAULT}
    /\ dba_users = Accounts0
    /\ user_info = {}
    /\ granted = {}
    /\ tasks = [t \in Tasks |-> IdleTask]

(***************************************************************************)
(* Operations.  A call runs from the service method's first line to its    *)
(* first await: the validation, then get_connection's pool test.           *)
(***************************************************************************)
\* a PrivilegeService operation whose checks gave v and whose DAO method is stage
StartDDL(t, r, v, stage) ==
    /\ AllIdle
    /\ tasks' = [tasks EXCEPT ![t] =
                    IF v.kind = "raise" THEN Done(New(r), v)
                    ELSE get_connection(New(r), stage, pool)]
    /\ UNCHANGED <<pool, checkedOut, catalog, granted>>

GrantSystemPrivilege(t, D) ==
    \E privilege \in D.sys_privileges, grantee \in D.grantees, with_admin \in BOOLEAN :
        LET r == Req([op |-> "grant_system_privilege", privilege |-> privilege,
                      grantee |-> grantee, with_admin |-> with_admin])
        IN  StartDDL(t, r, grant_system_privilege_check(r), "grant_system_privilege_ddl")

RevokeSystemPrivilege(t, D) ==
    \E privilege \in D.sys_privileges, grantee \in D.grantees :
        LET r == Req([op |-> "revoke_system_privilege", privilege |-> privilege,
                      grantee |-> grantee])
        IN  StartDDL(t, r, revoke_system_privilege_check(r), "revoke_system_privilege_ddl")

GrantRole(t, D) ==
    \E role \in D.roles, grantee \in D.grantees, with_admin \in BOOLEAN :
        LET r == Req([op |-> "grant_role", role |-> role, grantee |-> grantee,
                      with_admin |-> with_admin])
        IN  StartDDL(t, r, grant_role_check(r), "grant_role_ddl")

RevokeRole(t, D) ==
    \E role \in D.roles, grantee \in D.grantees :
        LET r == Req([op |-> "revoke_role", role |-> role, grantee |-> grantee])
        IN  StartDDL(t, r, revoke_role_check(r), "revoke_role_ddl")

GrantObjectPrivilege(t, D) ==
    \E privilege \in D.privileges, owner \in D.owners, table_name \in D.table_names,
       grantee \in D.grantees, with_grant_option \in BOOLEAN :
        LET r == Req([op |-> "grant_object_privilege", privilege |-> privilege,
                      owner |-> owner, table_name |-> table_name,
                      grantee |-> grantee, with_grant_option |-> with_grant_option])
        IN  StartDDL(t, r, grant_object_privilege_check(r), "grant_object_privilege_ddl")

RevokeObjectPrivilege(t, D) ==
    \E privilege \in D.privileges, owner \in D.owners, table_name \in D.table_names,
       grantee \in D.grantees :
        LET r == Req([op |-> "revoke_object_privilege", privilege |-> privilege,
                      owner |-> owner, table_name |-> table_name,
                      grantee |-> grantee])
        IN  StartDDL(t, r, revoke_object_privilege_check(r), "revoke_object_privilege_ddl")

GrantColumnPrivilege(t, D) ==
    \E privilege \in D.privileges, owner \in D.owners, table_name \in D.table_names,
       columns \in D.columns, grantee \in D.grantees :
        LET r == Req([op |-> "grant_column_privilege", privilege |-> privilege,
                      owner |-> owner, table_name |-> table_name,
                      columns |-> columns, grantee |-> grantee])
        IN  StartDDL(t, r, grant_column_privilege_check(r), "grant_column_privilege_ddl")

RevokeColumnPrivilege(t, D) ==
    \E privilege \in D.privileges, owner \in D.owners, table_name \in D.table_names,
       columns \in D.columns, grantee \in D.grantees :
        LET r == Req([op |-> "revoke_column_privilege", privilege |-> privilege,
                      owner |-> owner, table_name |-> table_name,
                      columns |-> columns, grantee |-> grantee])
        IN  StartDDL(t, r, revoke_column_privilege_check(r), "revoke_column_privilege_ddl")

\* PermissionChecker.check_permission up to the first has_privilege call, whose
\* "if not db.pool: await db.create_pool()" suspends nowhere
CheckPermission(t, D) ==
    /\ AllIdle
    /\ \E username \in D.usernames, action \in D.actions, raise_error \in BOOLEAN :
        LET r == Req([op |-> "check_permission", username |-> username,
                      action |-> action, raise_error |-> raise_error])
            bypass == RequiredPrivs(action) = <<>> \/ IsAdminUser(username)
        IN  /\ tasks' = [tasks EXCEPT ![t] =
                    IF bypass THEN Done(New(r), Return("True"))
                    ELSE [New(r) EXCEPT !.pc = "acquire",
                                        !.stage = "has_privilege", !.i = 1]]
            /\ pool' = IF bypass THEN pool ELSE TRUE
    /\ UNCHANGED <<checkedOut, catalog, granted>>

\* ProfileService.create_profile up to profile_exists' await of the pool
CreateProfile(t, D) ==
    /\ AllIdle
    /\ \E profile_name \in D.profile_names, sessions_per_user \in D.limits,
          connect_time \in D.limits, idle_time \in D.limits :
        LET r == Req([op |-> "create_profile", profile_name |-> profile_name,
                      sessions_per_user |-> sessions_per_user,
                      connect_time |-> connect_time, idle_time |-> idle_time])
            v == create_profile_name_check(r)
        IN  /\ tasks' = [tasks EXCEPT ![t] =
                    IF v.kind = "raise" THEN Done(New(r), v)
                    ELSE [New(r) EXCEPT !.pc = "acquire", !.stage = "profile_exists"]]
            /\ pool' = IF v.kind = "raise" THEN pool ELSE TRUE
    /\ UNCHANGED <<checkedOut, catalog, granted>>

\* ProfileService.update_profile up to profile_exists' await of the pool
UpdateProfile(t, D) ==
    /\ AllIdle
    /\ \E profile_name \in D.profile_names, sessions_per_user \in D.new_limits,
          connect_time \in D.new_limits, idle_time \in D.new_limits :
        LET r == Req([op |-> "update_profile", profile_name |-> profile_name,
                      sessions_per_user |-> sessions_per_user,
                      connect_time |-> connect_time, idle_time |-> idle_time])
        IN  tasks' = [tasks EXCEPT ![t] =
                [New(r) EXCEPT !.pc = "acquire", !.stage = "profile_exists"]]
    /\ pool' = TRUE
    /\ UNCHANGED <<checkedOut, catalog, granted>>

(***************************************************************************)
(* Steps of a DAO method                                                   *)
(***************************************************************************)
\* alter_profile_ddl: "if not parts: return"
NothingToAlter(r) ==
    alter_profile_parts(NormalizedOrNone(r.sessions_per_user),
                        NormalizedOrNone(r.connect_time),
                        NormalizedOrNone(r.idle_time)) = <<>>

(***************************************************************************)
(* UserService: the privilege check in front of its three commands         *)
(***************************************************************************)
UserOps == {"create_user", "update_user", "delete_user"}

\* the privilege create_user, update_user and delete_user look up
user_privilege(op) ==
    CASE op = "create_user" -> s_CREATE_USER
      [] op = "update_user" -> s_ALTER_USER
      [] op = "delete_user" -> s_DROP_USER

user_ddl_stage(op) ==
    CASE op = "create_user" -> "create_user_ddl"
      [] op = "update_user" -> "alter_user_ddl"
      [] op = "delete_user" -> "drop_user_ddl"

\* the arguments has_privilege was called with
lookup_username(tk) ==
    IF tk.req.op \in UserOps THEN tk.req.current_user ELSE tk.req.username

\* list(REQUIRED_PRIVILEGES.keys()): the keys in the order of the literal
capability_actions ==
    <<"create_user", "alter_user", "drop_user", "create_profile",
      "alter_profile", "drop_profile", "create_role", "alter_role",
      "drop_role", "grant_role", "login", "select_any_table",
      "grant_system_privilege">>

\* the action check_permission was called with; check_multiple_permissions
\* calls it for the action after those it has results for
checked_action(tk) ==
    IF tk.req.op = "get_user_capabilities"
    THEN capability_actions[Len(tk.rows) + 1]
    ELSE tk.req.action

lookup_privilege(tk) ==
    IF tk.req.op \in {"check_permission", "get_user_capabilities"}
    THEN RequiredPrivs(checked_action(tk))[tk.i]
    ELSE IF tk.req.op \in UserOps THEN user_privilege(tk.req.op)
    ELSE tk.req.privilege

\* how many failing queries the environment puts into one call
MaxFaults == 2

\* whether a query of has_privilege may fail
QueryFaults(tk) == IF tk.faults < MaxFaults THEN BOOLEAN ELSE {FALSE}

\* a variant that denies when the lookup raises
check_privilege_FailClosed(res) ==
    IF res.kind = "raise" THEN Return("False") ELSE res

\* UserService.check_privilege around has_privilege's result res:
\* "except Exception: return True"
check_privilege(res) ==
    IF res.kind = "raise" THEN Return("True") ELSE res

\* what create_user and update_user make of an exception of their DAO call
\* ("except Exception as e: ... raise ValueError"); delete_user lets it pass
service_result(op, res) ==
    IF op \in {"create_user", "update_user"} /\ res.kind = "raise"
    THEN Raise("ValueError", "Database error")
    ELSE res

\* a UserService command from its DAO call up to the await of the pool
user_ddl_start(tk) ==
    LET n == get_connection([tk EXCEPT !.pending = NoResult],
                            user_ddl_stage(tk.req.op), pool)
    IN  IF n.pc = "done" THEN Done(n, service_result(tk.req.op, n.outcome)) ELSE n

\* a variant that goes on to the command whatever the lookup said
after_check_privilege_Unchecked(tk, res) ==
    IF tk.req.op = "check_privilege" THEN Done(tk, check_privilege(res))
    ELSE user_ddl_start(tk)

\* the caller of UserService.check_privilege once has_privilege gave res:
\* check_privilege itself returns; a command raises PermissionError on "not
\* has_privilege" and otherwise goes on to its DAO call
after_check_privilege(tk, res) ==
    IF tk.req.op = "check_privilege" THEN Done(tk, check_privilege(res))
    ELSE IF check_privilege(res).val # "True"
         THEN Done(tk, Raise("PermissionError", "permission denied"))
    ELSE user_ddl_start(tk)

\* pool.acquire() answers a *_ddl method: on a connection, the method builds
\* its command and sends it (alter_profile_ddl returns at once when it has
\* nothing to alter); an error leaves the method (the call is outside its
\* try block)
AcquireDDL(t) ==
    LET tk == tasks[t] IN
    /\ tk.pc = "acquire"
    /\ tk.stage \in DDLStages
    /\ \E ok \in BOOLEAN :
        IF ok
        THEN /\ checkedOut' = checkedOut + 1
             /\ tasks' = [tasks EXCEPT ![t] =
                    IF \/ tk.stage = "alter_profile_ddl" /\ NothingToAlter(tk.req)
                       \/ tk.stage = "alter_user_ddl"
                            /\ alter_user_fields(tk.req) = <<>>
                    THEN [tk EXCEPT !.pc = "release", !.acq = @ + 1,
                                    !.pending = Return("None")]
                    ELSE [tk EXCEPT !.pc = "execute", !.acq = @ + 1,
                                    !.cmds = Append(@, DdlText(tk)),
                                    !.sent_at = SentSoFar + 1]]
        ELSE /\ checkedOut' = checkedOut
             /\ tasks' = [tasks EXCEPT ![t] =
                    Done([tk EXCEPT !.acq_failed = TRUE],
                         service_result(tk.req.op,
                             Raise("oracledb.Error", "DPY-6005")))]
    /\ UNCHANGED <<pool, catalog, granted>>

\* pool.acquire() answers a query method, which sends its first query; an
\* error leaves the method, and only UserService.check_privilege catches it
AcquireQuery(t) ==
    LET tk == tasks[t] IN
    /\ tk.pc = "acquire"
    /\ tk.stage \in {"has_privilege", "profile_exists", "query_grantee_privileges",
                     "query_profile_users", "query_user_privileges"}
    /\ \E ok \in BOOLEAN :
        IF ok
        THEN /\ checkedOut' = checkedOut + 1
             /\ tasks' = [tasks EXCEPT ![t] =
                    [tk EXCEPT !.pc = "query1", !.acq = @ + 1, !.queries = @ + 1]]
        ELSE /\ checkedOut' = checkedOut
             /\ tasks' = [tasks EXCEPT ![t] =
                    IF tk.stage = "has_privilege"
                       /\ tk.req.op \in UserOps \cup {"check_privilege"}
                    THEN after_check_privilege([tk EXCEPT !.acq_failed = TRUE],
                             Raise("oracledb.Error", "DPY-6005"))
                    ELSE Done([tk EXCEPT !.acq_failed = TRUE],
                              Raise("oracledb.Error", "DPY-6005"))]
    /\ UNCHANGED <<pool, catalog, granted>>

\* a variant that logs the engine's error and returns normally
ddl_result_Swallowed(diag) == Return("None")

\* what a *_ddl method makes of the engine's answer: it returns after the
\* commit; "except oracledb.Error as e: rollback; print; raise" re-raises e
ddl_result(diag) ==
    IF diag = "OK" THEN Return("None") ELSE Raise("oracledb.Error", diag)

\* The engine answers the command of a *_ddl method: applied (and committed),
\* or an oracledb.Error that the except clause rolls back and re-raises.
\* Either way the method goes on to its finally clause.
ExecuteDDL(t) ==
    LET tk == tasks[t] IN
    /\ tk.pc = "execute"
    /\ \E diag \in EngineOutcomes(tk) :
        LET after == IF diag = "OK" THEN EngineApply(tk)
                     ELSE [sys |-> dba_sys_privs, role |-> dba_role_privs,
                           tab |-> dba_tab_privs, col |-> dba_col_privs,
                           prof |-> dba_profiles, users |-> dba_users]
        IN  /\ dba_sys_privs' = after.sys
            /\ dba_role_privs' = after.role
            /\ dba_tab_privs' = after.tab
            /\ dba_col_privs' = after.col
            /\ dba_profiles' = after.prof
            /\ dba_users' = after.users
            /\ UNCHANGED user_info
            /\ tasks' = [tasks EXCEPT ![t] =
                    IF /\ tk.stage = "alter_user_ddl" /\ diag = "OK"
                       /\ Len(tk.cmds) < Len(alter_user_fields(tk.req))
                    THEN [tk EXCEPT !.diags = Append(@, diag),
                                    !.applied_at = AppliedSoFar + 1,
                                    !.cmds = Append(@, DdlText(tk)),
                                    !.sent_at = SentSoFar + 1]
                    ELSE [tk EXCEPT !.pc = "release",
                               !.diags = Append(@, diag),
                               !.applied_at = IF diag = "OK" THEN AppliedSoFar + 1
                                              ELSE @,
                               !.pending = ddl_result(diag)]]
    /\ UNCHANGED <<pool, checkedOut, granted>>

\* the history once the operation of tk has ended with its pending result
GrantedAfter(tk) ==
    LET r == tk.req IN
    IF tk.pending # Return("None") THEN granted
    ELSE IF r.op = "grant_system_privilege" /\ ~r.with_admin
         THEN granted \cup {[privilege |-> r.privilege, grantee |-> r.grantee]}
    ELSE IF r.op = "revoke_system_privilege"
         THEN {g \in granted : ~(/\ Unquoted(g.privilege) = Unquoted(r.privilege)
                                  /\ Unquoted(g.grantee) = Unquoted(r.grantee))}
    ELSE granted

\* finally: release_connection; then the *_ddl method's result goes to the
\* service method
ReleaseDDL(t) ==
    LET tk == tasks[t] IN
    /\ tk.pc = "release"
    /\ tk.stage \in DDLStages
    /\ checkedOut' = CheckedOutAfterRelease
    /\ tasks' = [tasks EXCEPT ![t] =
            Done(release_connection(tk), service_result(tk.req.op, tk.pending))]
    /\ granted' = GrantedAfter(tk)
    /\ UNCHANGED <<pool, catalog>>

\* has_privilege: the answer to the direct-grant query; "except Exception:
\* return True" covers a failed query
HasPrivilegeQuery1(t) ==
    LET tk == tasks[t]
        privilege == lookup_privilege(tk)
    IN
    /\ tk.pc = "query1"
    /\ tk.stage = "has_privilege"
    /\ \E failed \in QueryFaults(tk) :
        tasks' = [tasks EXCEPT ![t] =
            IF failed
            THEN [tk EXCEPT !.pc = "release", !.pending = Return("True"),
                            !.query_failed = TRUE, !.faults = @ + 1]
            ELSE IF has_privilege_direct(lookup_username(tk), privilege)
                 THEN [tk EXCEPT !.pc = "release", !.pending = Return("True")]
            ELSE [tk EXCEPT !.pc = "query2", !.queries = @ + 1]]
    /\ UNCHANGED <<pool, checkedOut, catalog, granted>>

\* has_privilege: the answer to the query through the granted roles
HasPrivilegeQuery2(t) ==
    LET tk == tasks[t]
        privilege == lookup_privilege(tk)
    IN
    /\ tk.pc = "query2"
    /\ \E failed \in QueryFaults(tk) :
        tasks' = [tasks EXCEPT ![t] =
            [tk EXCEPT !.pc = "release",
                       !.query_failed = @ \/ failed,
                       !.faults = IF failed THEN @ + 1 ELSE @,
                       !.pending =
                           IF failed \/ has_privilege_via_role(lookup_username(tk), privilege)
                           THEN Return("True") ELSE Return("False")]]
    /\ UNCHANGED <<pool, checkedOut, catalog, granted>>

\* a variant that raises whatever raise_error says
check_permission_end_Raising(tk) ==
    IF tk.pending.val = "True" THEN Return("True")
    ELSE Raise("PermissionError", "permission denied")

\* check_permission after its loop: True from the loop's "return True",
\* else PermissionError or False
check_permission_end(tk) ==
    IF tk.pending.val = "True" THEN Return("True")
    ELSE IF tk.req.raise_error THEN Raise("PermissionError", "permission denied")
    ELSE Return("False")

\* check_permission without I/O: no privilege required, or SYS / SYSTEM
check_permission_bypass(username, action) ==
    RequiredPrivs(action) = <<>> \/ IsAdminUser(username)

\* check_multiple_permissions from the action after its last result: the
\* actions answered without I/O, then the first lookup or the end
RECURSIVE check_multiple_permissions(_)
check_multiple_permissions(tk) ==
    IF Len(tk.rows) = Len(capability_actions) THEN Done(tk, Return("dict"))
    ELSE IF check_permission_bypass(tk.req.username, checked_action(tk))
         THEN check_multiple_permissions(
                  [tk EXCEPT !.rows = Append(@, [action |-> checked_action(tk),
                                                 value |-> TRUE])])
    ELSE [tk EXCEPT !.pc = "acquire", !.stage = "has_privilege", !.i = 1,
                    !.pending = NoResult]

\* the caller of check_permission once it ended with res: the operation
\* itself, or check_multiple_permissions storing results[action]
after_check_permission(tk, res) ==
    IF tk.req.op = "check_permission" \/ res.kind = "raise" THEN Done(tk, res)
    ELSE check_multiple_permissions(
             [tk EXCEPT !.rows = Append(@, [action |-> checked_action(tk),
                                            value |-> res.val = "True"])])

\* has_privilege's finally; then UserService goes on with the answer, and
\* check_permission with its loop over required_privs and its end
ReleaseHasPrivilege(t) ==
    LET tk == release_connection(tasks[t])
        required_privs == RequiredPrivs(checked_action(tk))
    IN
    /\ tk.pc = "release"
    /\ tk.stage = "has_privilege"
    /\ checkedOut' = CheckedOutAfterRelease
    /\ tasks' = [tasks EXCEPT ![t] =
            IF tk.req.op \in UserOps \cup {"check_privilege"}
            THEN after_check_privilege(tk, tk.pending)
            ELSE IF tk.pending.val # "True" /\ tk.i < Len(required_privs)
                 THEN [tk EXCEPT !.pc = "acquire", !.i = @ + 1, !.pending = NoResult]
            ELSE after_check_permission(tk, check_permission_end(tk))]
    /\ UNCHANGED <<pool, catalog, granted>>

\* profile_exists: the answer to its query; "except oracledb.Error: return False"
ProfileExistsQuery(t) ==
    LET tk == tasks[t] IN
    /\ tk.pc = "query1"
    /\ tk.stage = "profile_exists"
    /\ \E failed \in BOOLEAN :
        tasks' = [tasks EXCEPT ![t] =
            [tk EXCEPT !.pc = "release",
                       !.query_failed = @ \/ failed,
                       !.pending =
                           IF ~failed /\ profile_exists_count(tk.req.profile_name) > 0
                           THEN Return("True") ELSE Return("False")]]
    /\ UNCHANGED <<pool, checkedOut, catalog, granted>>

\* create_profile after profile_exists, up to create_profile_ddl's await of
\* the pool
create_profile_continue(tk) ==
    IF tk.pending.val = "True"
    THEN Done(tk, Raise("ValueError", "profile already exists"))
    ELSE IF create_profile_limits_check(tk.req).kind = "raise"
         THEN Done(tk, create_profile_limits_check(tk.req))
    ELSE get_connection([tk EXCEPT !.pending = NoResult], "create_profile_ddl", pool)

\* update_profile after profile_exists, up to alter_profile_ddl's await of
\* the pool
update_profile_continue(tk) ==
    IF tk.pending.val # "True"
    THEN Done(tk, Raise("ValueError", "profile does not exist"))
    ELSE IF update_profile_limits_check(tk.req).kind = "raise"
         THEN Done(tk, update_profile_limits_check(tk.req))
    ELSE IF NothingToAlter(tk.req) THEN Done(tk, Return("None"))
    ELSE get_connection([tk EXCEPT !.pending = NoResult], "alter_profile_ddl", pool)

\* delete_profile after profile_exists, up to the next await of the pool:
\* that of query_profile_users, or with cascade that of drop_profile_ddl
delete_profile_continue(tk) ==
    IF tk.pending.val # "True"
    THEN Done(tk, Raise("ValueError", "profile does not exist"))
    ELSE IF ~tk.req.cascade
         THEN [tk EXCEPT !.pc = "acquire", !.stage = "query_profile_users",
                         !.pending = NoResult]
    ELSE get_connection([tk EXCEPT !.pending = NoResult], "drop_profile_ddl", pool)

\* profile_exists' finally, then the rest of the service method
ReleaseProfileExists(t) ==
    LET tk == release_connection(tasks[t]) IN
    /\ tk.pc = "release"
    /\ tk.stage = "profile_exists"
    /\ checkedOut' = CheckedOutAfterRelease
    /\ tasks' = [tasks EXCEPT ![t] =
            IF tk.req.op = "create_profile" THEN create_profile_continue(tk)
            ELSE IF tk.req.op = "delete_profile" THEN delete_profile_continue(tk)
            ELSE update_profile_continue(tk)]
    /\ UNCHANGED <<pool, catalog, granted>>

\* the caller has the operation's result; the task is free again
Finish(t) ==
    /\ tasks[t].pc = "done"
    /\ tasks' = [tasks EXCEPT ![t] = IdleTask]
    /\ UNCHANGED <<pool, checkedOut, catalog, granted>>

\* main.startup_event: db.create_pool()
Startup ==
    /\ ~pool
    /\ AllIdle
    /\ pool' = TRUE
    /\ UNCHANGED <<checkedOut, catalog, tasks, granted>>

\* the steps every operation shares
DaoStep(t) ==
    \/ AcquireDDL(t)
    \/ ExecuteDDL(t)
    \/ ReleaseDDL(t)
    \/ Finish(t)

PrivilegeCall(t, D) ==
    \/ GrantSystemPrivilege(t, D)
    \/ RevokeSystemPrivilege(t, D)
    \/ GrantRole(t, D)
    \/ RevokeRole(t, D)
    \/ GrantObjectPrivilege(t, D)
    \/ RevokeObjectPrivilege(t, D)
    \/ GrantColumnPrivilege(t, D)
    \/ RevokeColumnPrivilege(t, D)

PermissionStep(t) ==
    \/ AcquireQuery(t)
    \/ HasPrivilegeQuery1(t)
    \/ HasPrivilegeQuery2(t)
    \/ ReleaseHasPrivilege(t)

ProfileCall(t, D) ==
    \/ CreateProfile(t, D)
    \/ UpdateProfile(t, D)

ProfileStep(t) ==
    \/ AcquireQuery(t)
    \/ ProfileExistsQuery(t)
    \/ ReleaseProfileExists(t)

\* PrivilegeService: the eight grant and revoke operations
Next ==
    \/ Startup
    \/ \E t \in Tasks : PrivilegeCall(t, Wide) \/ DaoStep(t)

Spec == Init /\ [][Next]_vars

\* PermissionChecker in front of an arbitrary catalog
NextPerm ==
    \E t \in Tasks : CheckPermission(t, Wide) \/ PermissionStep(t) \/ Finish(t)

SpecPerm == InitPerm /\ [][NextPerm]_vars

\* ProfileService
NextProfile ==
    \/ Startup
    \/ \E t \in Tasks : ProfileCall(t, Wide) \/ ProfileStep(t) \/ DaoStep(t)

SpecProfile == Init /\ [][NextProfile]_vars

\* every operation, one at a time, on few requests
NextAll ==
    \/ Startup
    \/ \E t \in Tasks :
        \/ PrivilegeCall(t, Narrow)
        \/ CheckPermission(t, Narrow)
        \/ ProfileCall(t, Narrow)
        \/ PermissionStep(t)
        \/ ProfileStep(t)
        \/ DaoStep(t)

SpecAll == Init /\ [][NextAll]_vars

(***************************************************************************)
(* The validators on their own                                             *)
(***************************************************************************)
MaxLen == 3

\* every string of at most n characters of the alphabet A
StringsOver(A, n) == UNION {[1..k -> A] : k \in 0..n}

IdentifierAlphabet == {"a", "Z", "7", "_", "$", "#", " ", "\n"}

LimitAlphabet == {"3", "0", "_", "-", "+", " "}

s_Unlimited == <<"U", "n", "l", "i", "m", "i", "t", "e", "d">>

LimitWords == {s_UNLIMITED, s_Unlimited, s_DEFAULT, s_default, s_x, s_30}

\* Python's bool as the caller sees it
Bool(b) == IF b THEN "True" ELSE "False"

\* a call about to run
Called(r) == [New(Req(r)) EXCEPT !.pc = "call"]

InitValidators ==
    /\ pool = FALSE
    /\ checkedOut = 0
    /\ dba_sys_privs = {}
    /\ dba_role_privs = {}
    /\ dba_tab_privs = {}
    /\ dba_col_privs = {}
    /\ dba_profiles = {s_DEFAULT}
    /\ dba_users = Accounts0
    /\ user_info = {}
    /\ granted = {}
    /\ \/ \E name \in StringsOver(IdentifierAlphabet, MaxLen) :
            tasks = [t \in Tasks |->
                        Called([op |-> "validate_identifier", name |-> name])]
       \/ \E value \in StringsOver(LimitAlphabet, MaxLen) \cup LimitWords :
            tasks = [t \in Tasks |->
                        Called([op |-> "validate_resource_limit", value |-> value])]

\* PrivilegeService._validate_identifier(name)
ValidateIdentifier(t) ==
    /\ tasks[t].pc = "call"
    /\ tasks[t].req.op = "validate_identifier"
    /\ tasks' = [tasks EXCEPT ![t] =
            Done(@, Return(Bool(validate_identifier(@.req.name))))]
    /\ UNCHANGED <<pool, checkedOut, catalog, granted>>

\* ProfileService._validate_resource_limit(value)
ValidateResourceLimit(t) ==
    /\ tasks[t].pc = "call"
    /\ tasks[t].req.op = "validate_resource_limit"
    /\ tasks' = [tasks EXCEPT ![t] =
            Done(@, Return(Bool(validate_resource_limit(@.req.value))))]
    /\ UNCHANGED <<pool, checkedOut, catalog, granted>>

NextValidators ==
    \E t \in Tasks : ValidateIdentifier(t) \/ ValidateResourceLimit(t) \/ Finish(t)

SpecValidators == InitValidators /\ [][NextValidators]_vars

(***************************************************************************)
(* The command texts of grants, one request at a time                      *)
(***************************************************************************)
s_clerk == <<"c", "l", "e", "r", "k">>

s_name == <<"n", "a", "m", "e">>

s_employees == <<"e", "m", "p", "l", "o", "y", "e", "e", "s">>

s_analyst == <<"a", "n", "a", "l", "y", "s", "t">>

CommandInputs ==
    [grantees |-> {s_Bob, s_analyst, s_clerk, s_BobNL},
     sys_privileges |-> EngineSysPrivs,
     privileges |-> {s_select, s_SELECT, s_INSERT},
     owners |-> {s_hr, s_HR},
     table_names |-> {s_emp, s_employees},
     columns |-> ColumnLists({s_id, s_name})]

NextCommands ==
    \/ Startup
    \/ \E t \in Tasks :
        \/ GrantSystemPrivilege(t, CommandInputs)
        \/ GrantColumnPrivilege(t, CommandInputs)
        \/ AcquireDDL(t)
        \/ ExecuteDDL(t)
        \/ ReleaseDDL(t)

SpecCommands == Init /\ [][NextCommands]_vars

(***************************************************************************)
(* PrivilegeService.get_grantee_privileges / PrivilegeDAO.                 *)
(* query_grantee_privileges                                                *)
(***************************************************************************)
\* the characters of catalog names in the order the engine sorts them
Collation == <<" ", "#", "$">> \o Digits \o UpperLetters \o <<"_">>

Rank(c) == CHOOSE i \in DOMAIN Collation : Collation[i] = c

RECURSIVE Before(_, _)
Before(a, b) ==
    IF a = <<>> THEN b # <<>>
    ELSE IF b = <<>> THEN FALSE
    ELSE IF a[1] = b[1] THEN Before(Tail(a), Tail(b))
    ELSE Rank(a[1]) < Rank(b[1])

\* ORDER BY privilege (ORDER BY granted_role for the role rows)
RECURSIVE OrderByPrivilege(_)
OrderByPrivilege(S) ==
    IF S = {} THEN <<>>
    ELSE LET first == CHOOSE x \in S :
                        \A y \in S \ {x} : Before(x.privilege, y.privilege)
         IN  <<first>> \o OrderByPrivilege(S \ {first})

\* SELECT privilege, admin_option, 'SYSTEM' as privilege_type FROM
\* dba_sys_privs WHERE grantee = :grantee, with grantee=grantee.upper()
system_privilege_rows(grantee) ==
    OrderByPrivilege(
        {[privilege |-> f.privilege, admin_option |-> f.admin_option,
          privilege_type |-> "SYSTEM"] :
            f \in {h \in dba_sys_privs : h.grantee = Upper(grantee)}})

\* SELECT granted_role as privilege, admin_option, 'ROLE' as privilege_type
\* FROM dba_role_privs WHERE grantee = :grantee
role_rows(grantee) ==
    OrderByPrivilege(
        {[privilege |-> f.granted_role, admin_option |-> f.admin_option,
          privilege_type |-> "ROLE"] :
            f \in {h \in dba_role_privs : h.grantee = Upper(grantee)}})

\* get_grantee_privileges(grantee): no check; query_grantee_privileges
\* creates the pool if there is none and asks it for a connection
GetGranteePrivileges(t, D) ==
    /\ AllIdle
    /\ \E grantee \in D.readers :
        tasks' = [tasks EXCEPT ![t] =
            [New(Req([op |-> "get_grantee_privileges", grantee |-> grantee]))
                EXCEPT !.pc = "acquire", !.stage = "query_grantee_privileges"]]
    /\ pool' = TRUE
    /\ UNCHANGED <<checkedOut, catalog, granted>>

\* the answer to the query of dba_sys_privs; an oracledb.Error is printed
\* and re-raised
GranteePrivilegesQuery1(t) ==
    LET tk == tasks[t] IN
    /\ tk.pc = "query1"
    /\ tk.stage = "query_grantee_privileges"
    /\ \E failed \in BOOLEAN :
        tasks' = [tasks EXCEPT ![t] =
            IF failed
            THEN [tk EXCEPT !.pc = "release", !.query_failed = TRUE,
                            !.pending = Raise("oracledb.Error", "ORA-03113")]
            ELSE [tk EXCEPT !.pc = "query2", !.queries = @ + 1,
                            !.rows = system_privilege_rows(tk.req.grantee)]]
    /\ UNCHANGED <<pool, checkedOut, catalog, granted>>

\* the answer to the query of dba_role_privs, appended to the result
GranteePrivilegesQuery2(t) ==
    LET tk == tasks[t] IN
    /\ tk.pc = "query2"
    /\ tk.stage = "query_grantee_privileges"
    /\ \E failed \in BOOLEAN :
        tasks' = [tasks EXCEPT ![t] =
            IF failed
            THEN [tk EXCEPT !.pc = "release", !.query_failed = TRUE,
                            !.rows = <<>>,
                            !.pending = Raise("oracledb.Error", "ORA-03113")]
            ELSE [tk EXCEPT !.pc = "release",
                            !.rows = @ \o role_rows(tk.req.grantee),
                            !.pending = Return("list")]]
    /\ UNCHANGED <<pool, checkedOut, catalog, granted>>

\* finally: release_connection; the result goes to the caller
ReleaseGranteePrivileges(t) ==
    LET tk == tasks[t] IN
    /\ tk.pc = "release"
    /\ tk.stage = "query_grantee_privileges"
    /\ checkedOut' = CheckedOutAfterRelease
    /\ tasks' = [tasks EXCEPT ![t] = Done(release_connection(tk), tk.pending)]
    /\ UNCHANGED <<pool, catalog, granted>>

GrantReadInputs ==
    [grantees |-> {s_Bob, s_BobNL},
     readers |-> {s_Bob, s_bob, s_BobNL},
     sys_privileges |-> {s_CREATE_USER, s_CREATE_SESSION},
     roles |-> {s_r1}]

\* system and role grants, revokes, and the read of a grantee's privileges
NextGrantRead ==
    \/ Startup
    \/ \E t \in Tasks :
        \/ GrantSystemPrivilege(t, GrantReadInputs)
        \/ RevokeSystemPrivilege(t, GrantReadInputs)
        \/ GrantRole(t, GrantReadInputs)
        \/ GetGranteePrivileges(t, GrantReadInputs)
        \/ AcquireQuery(t)
        \/ GranteePrivilegesQuery1(t)
        \/ GranteePrivilegesQuery2(t)
        \/ ReleaseGranteePrivileges(t)
        \/ DaoStep(t)

SpecGrantRead == Init /\ [][NextGrantRead]_vars

(***************************************************************************)
(* UserService operations                                                  *)
(***************************************************************************)
\* has_privilege up to its await of the pool: "if not db.pool: await
\* db.create_pool()", then get_connection
has_privilege_start(r) == [New(r) EXCEPT !.pc = "acquire", !.stage = "has_privilege"]

\* UserService.check_privilege(username, privilege)
CheckPrivilege(t, D) ==
    /\ AllIdle
    /\ \E username \in D.usernames, privilege \in D.sys_privileges :
        LET r == Req([op |-> "check_privilege", username |-> username,
                      privilege |-> privilege])
        IN  tasks' = [tasks EXCEPT ![t] = has_privilege_start(r)]
    /\ pool' = TRUE
    /\ UNCHANGED <<checkedOut, catalog, granted>>

\* a UserService command whose validation gave v: "if current_user:" it looks
\* the privilege up first, otherwise it goes straight to its DAO call
StartUserCommand(t, r, v) ==
    /\ AllIdle
    /\ tasks' = [tasks EXCEPT ![t] =
            IF v.kind = "raise" THEN Done(New(r), v)
            ELSE IF r.current_user # <<>> THEN has_privilege_start(r)
            ELSE user_ddl_start(New(r))]
    /\ pool' = IF v.kind # "raise" /\ r.current_user # <<>> THEN TRUE ELSE pool
    /\ UNCHANGED <<checkedOut, catalog, granted>>

\* UserService.create_user without temporary tablespace, quota or profile
CreateUser(t, D) ==
    \E username \in D.new_usernames, current_user \in D.current_users :
        LET r == Req([op |-> "create_user", username |-> username,
                      password |-> s_pw, default_tablespace |-> s_USERS,
                      current_user |-> current_user])
        IN  StartUserCommand(t, r,
                IF validate_username(username) THEN Return("None")
                ELSE Raise("ValueError", "invalid username"))

\* UserService.update_user given a new password only
UpdateUser(t, D) ==
    \E username \in D.new_usernames, current_user \in D.current_users :
        LET r == Req([op |-> "update_user", username |-> username,
                      password |-> s_pw, current_user |-> current_user])
        IN  StartUserCommand(t, r, Return("None"))

\* UserService.delete_user
DeleteUser(t, D) ==
    \E username \in D.new_usernames, current_user \in D.current_users,
       cascade \in BOOLEAN :
        LET r == Req([op |-> "delete_user", username |-> username,
                      cascade |-> cascade, current_user |-> current_user])
        IN  StartUserCommand(t, r, Return("None"))

UserInputs ==
    [usernames |-> {s_bob, s_sys},
     actions |-> {"create_user", "drop_user"},
     sys_privileges |-> {s_CREATE_USER, s_DROP_USER},
     new_usernames |-> {s_alice, s_a_b},
     current_users |-> {s_Empty, s_bob}]

\* The application in front of a database where BOB may hold each of the
\* three user privileges directly and DROP USER through the role R1.
InitUsers ==
    /\ pool = FALSE
    /\ checkedOut = 0
    /\ dba_sys_privs \in SUBSET
          ({[grantee |-> s_BOB, privilege |-> p, admin_option |-> "NO"] :
               p \in {s_CREATE_USER, s_ALTER_USER, s_DROP_USER}}
           \cup {[grantee |-> s_R1, privilege |-> s_DROP_USER, admin_option |-> "NO"]})
    /\ dba_role_privs \in SUBSET
          {[grantee |-> s_BOB, granted_role |-> s_R1, admin_option |-> "NO"]}
    /\ dba_tab_privs = {}
    /\ dba_col_privs = {}
    /\ dba_profiles = {s_DEFAULT}
    /\ dba_users = Accounts0
    /\ user_info = {}
    /\ granted = {}
    /\ tasks = [t \in Tasks |-> IdleTask]

\* UserService and both permission checks
NextUsers ==
    \/ Startup
    \/ \E t \in Tasks :
        \/ CheckPermission(t, UserInputs)
        \/ CheckPrivilege(t, UserInputs)
        \/ CreateUser(t, UserInputs)
        \/ UpdateUser(t, UserInputs)
        \/ DeleteUser(t, UserInputs)
        \/ PermissionStep(t)
        \/ DaoStep(t)

SpecUsers == InitUsers /\ [][NextUsers]_vars

(***************************************************************************)
(* Routes: POST /privileges/grant                                          *)
(***************************************************************************)
\* routes/privileges.py grant_privilege, up to the service's first await:
\* require_auth answers 401 without a session username; then the form goes
\* to grant_role or grant_system_privilege
GrantPrivilegeRoute(t, D) ==
    \E session_username \in D.session_usernames, grantee \in D.grantees,
       privilege_type \in {"ROLE", "SYSTEM"}, with_admin \in BOOLEAN :
        \E privilege_or_role \in
                IF privilege_type = "ROLE" THEN D.roles ELSE D.sys_privileges :
            LET r == Req([op |-> IF privilege_type = "ROLE" THEN "grant_role"
                                 ELSE "grant_system_privilege",
                          route |-> "POST /privileges/grant",
                          session_username |-> session_username,
                          role |-> IF privilege_type = "ROLE"
                                   THEN privilege_or_role ELSE <<>>,
                          privilege |-> IF privilege_type = "ROLE"
                                        THEN <<>> ELSE privilege_or_role,
                          grantee |-> grantee, with_admin |-> with_admin])
                v == IF session_username = <<>>
                     THEN Raise("HTTPException", "401")
                     ELSE IF privilege_type = "ROLE" THEN grant_role_check(r)
                     ELSE grant_system_privilege_check(r)
            IN  StartDDL(t, r, v,
                    IF privilege_type = "ROLE" THEN "grant_role_ddl"
                    ELSE "grant_system_privilege_ddl")

\* the response of grant_privilege: the redirect after the service returned,
\* the form again with status 400 after any exception of the service
grant_privilege_response(res) ==
    IF res.kind = "return" THEN Return("303")
    ELSE IF res.val = "HTTPException" THEN res
    ELSE Return("400")

\* the service call of a route has ended and the route answers (the lists
\* the 400 page reads for its form are not followed)
RouteRespond(t) ==
    LET tk == tasks[t] IN
    /\ tk.pc = "done"
    /\ tk.req.route # ""
    /\ tasks' = [tasks EXCEPT ![t] =
            [tk EXCEPT !.pc = "responded",
                       !.outcome = grant_privilege_response(tk.outcome)]]
    /\ UNCHANGED <<pool, checkedOut, catalog, granted>>

\* the client has the response; the task is free again
RouteFinish(t) ==
    /\ tasks[t].pc = "responded"
    /\ tasks' = [tasks EXCEPT ![t] = IdleTask]
    /\ UNCHANGED <<pool, checkedOut, catalog, granted>>

RouteInputs ==
    [session_usernames |-> {s_Empty, s_bob},
     grantees |-> {s_Bob, s_Empty},
     roles |-> {s_r1, s_Empty},
     sys_privileges |-> {s_CREATE_USER, s_GRANT_ANY_PRIVILEGE}]

\* the grant form in front of PrivilegeService
NextRoutes ==
    \/ Startup
    \/ \E t \in Tasks :
        \/ GrantPrivilegeRoute(t, RouteInputs)
        \/ AcquireDDL(t)
        \/ ExecuteDDL(t)
        \/ ReleaseDDL(t)
        \/ RouteRespond(t)
        \/ RouteFinish(t)

SpecRoutes == Init /\ [][NextRoutes]_vars

(***************************************************************************)
(* PermissionChecker.get_user_capabilities                                 *)
(***************************************************************************)
\* get_user_capabilities(username), up to the first lookup's await of the
\* pool (has_privilege creates the pool when there is none)
GetUserCapabilities(t, D) ==
    /\ AllIdle
    /\ \E username \in D.usernames :
        LET r == Req([op |-> "get_user_capabilities", username |-> username])
            n == check_multiple_permissions(New(r))
        IN  /\ tasks' = [tasks EXCEPT ![t] = n]
            /\ pool' = IF n.pc = "acquire" THEN TRUE ELSE pool
    /\ UNCHANGED <<checkedOut, catalog, granted>>

CapabilityInputs == [usernames |-> {s_bob, s_sys}]

\* The application in front of a database where BOB may hold CREATE USER
\* directly and DROP USER through the role R1.
InitCapabilities ==
    /\ pool = FALSE
    /\ checkedOut = 0
    /\ dba_sys_privs \in SUBSET
          {[grantee |-> s_BOB, privilege |-> s_CREATE_USER, admin_option |-> "NO"],
           [grantee |-> s_R1, privilege |-> s_DROP_USER, admin_option |-> "NO"]}
    /\ dba_role_privs \in SUBSET
          {[grantee |-> s_BOB, granted_role |-> s_R1, admin_option |-> "NO"]}
    /\ dba_tab_privs = {}
    /\ dba_col_privs = {}
    /\ dba_profiles = {s_DEFAULT}
    /\ dba_users = Accounts0
    /\ user_info = {}
    /\ granted = {}
    /\ tasks = [t \in Tasks |-> IdleTask]

NextCapabilities ==
    \E t \in Tasks :
        GetUserCapabilities(t, CapabilityInputs) \/ PermissionStep(t) \/ Finish(t)

SpecCapabilities == InitCapabilities /\ [][NextCapabilities]_vars

(***************************************************************************)
(* Concurrent calls: two requests in flight on the one event loop          *)
(***************************************************************************)
Callers == {1, 2}

\* a PrivilegeService operation called while another call may be in flight
ConcurrentCall(t, r, v, stage) ==
    /\ tasks[t].pc = "idle"
    /\ tasks' = [tasks EXCEPT ![t] =
                    IF v.kind = "raise" THEN Done(New(r), v)
                    ELSE get_connection(New(r), stage, pool)]
    /\ UNCHANGED <<pool, checkedOut, catalog, granted>>

ConcurrentGrantSystemPrivilege(t, D) ==
    \E privilege \in D.sys_privileges, grantee \in D.grantees :
        LET r == Req([op |-> "grant_system_privilege", privilege |-> privilege,
                      grantee |-> grantee])
        IN  ConcurrentCall(t, r, grant_system_privilege_check(r),
                           "grant_system_privilege_ddl")

ConcurrentRevokeSystemPrivilege(t, D) ==
    \E privilege \in D.sys_privileges, grantee \in D.grantees :
        LET r == Req([op |-> "revoke_system_privilege", privilege |-> privilege,
                      grantee |-> grantee])
        IN  ConcurrentCall(t, r, revoke_system_privilege_check(r),
                           "revoke_system_privilege_ddl")

RaceInputs ==
    [grantees |-> {s_Bob, s_bob}, sys_privileges |-> {s_CREATE_USER}]

\* The application after startup, in front of a database where BOB holds
\* CREATE USER or does not, with two callers about to call.
InitRace ==
    /\ pool = TRUE
    /\ checkedOut = 0
    /\ dba_sys_privs \in
          {{}, {[grantee |-> s_BOB, privilege |-> s_CREATE_USER, admin_option |-> "NO"]}}
    /\ dba_role_privs = {}
    /\ dba_tab_privs = {}
    /\ dba_col_privs = {}
    /\ dba_profiles = {s_DEFAULT}
    /\ dba_users = Accounts0
    /\ user_info = {}
    /\ granted = {}
    /\ tasks = [t \in Callers |-> IdleTask]

\* a grant by the first caller and a revoke by the second, of one tuple
NextRace ==
    \/ ConcurrentGrantSystemPrivilege(1, RaceInputs)
    \/ ConcurrentRevokeSystemPrivilege(2, RaceInputs)
    \/ \E t \in Callers : AcquireDDL(t) \/ ExecuteDDL(t) \/ ReleaseDDL(t)

SpecRace == InitRace /\ [][NextRace]_vars

ConcurrentGrantRole(t, D) ==
    \E role \in D.roles, grantee \in D.grantees :
        LET r == Req([op |-> "grant_role", role |-> role, grantee |-> grantee])
        IN  ConcurrentCall(t, r, grant_role_check(r), "grant_role_ddl")

ConcurrentRevokeRole(t, D) ==
    \E role \in D.roles, grantee \in D.grantees :
        LET r == Req([op |-> "revoke_role", role |-> role, grantee |-> grantee])
        IN  ConcurrentCall(t, r, revoke_role_check(r), "revoke_role_ddl")

IndependentInputs ==
    [grantees |-> {s_Bob, s_r1, s_r2},
     sys_privileges |-> {s_CREATE_USER},
     roles |-> {s_r1, s_r2}]

\* the grants of the database the two callers start from
SysPrivs0 == {[grantee |-> s_BOB, privilege |-> s_CREATE_USER, admin_option |-> "NO"]}

RolePrivs0 == {[grantee |-> s_BOB, granted_role |-> s_R1, admin_option |-> "NO"]}

InitIndependent ==
    /\ pool = TRUE
    /\ checkedOut = 0
    /\ dba_sys_privs = SysPrivs0
    /\ dba_role_privs = RolePrivs0
    /\ dba_tab_privs = {}
    /\ dba_col_privs = {}
    /\ dba_profiles = {s_DEFAULT}
    /\ dba_users = Accounts0
    /\ user_info = {}
    /\ granted = {}
    /\ tasks = [t \in Callers |-> IdleTask]

\* one grant or revoke by each of two callers
NextIndependent ==
    \E t \in Callers :
        \/ ConcurrentGrantSystemPrivilege(t, IndependentInputs)
        \/ ConcurrentRevokeSystemPrivilege(t, IndependentInputs)
        \/ ConcurrentGrantRole(t, IndependentInputs)
        \/ ConcurrentRevokeRole(t, IndependentInputs)
        \/ AcquireDDL(t)
        \/ ExecuteDDL(t)
        \/ ReleaseDDL(t)

SpecIndependent == InitIndependent /\ [][NextIndependent]_vars

(***************************************************************************)
(* ProfileService.delete_profile                                           *)
(***************************************************************************)
\* delete_profile up to profile_exists' await of the pool
DeleteProfile(t, D) ==
    /\ AllIdle
    /\ \E profile_name \in D.profile_names, cascade \in BOOLEAN :
        LET r == Req([op |-> "delete_profile", profile_name |-> profile_name,
                      cascade |-> cascade])
            reserved == Upper(profile_name) = s_DEFAULT
        IN  /\ tasks' = [tasks EXCEPT ![t] =
                    IF reserved
                    THEN Done(New(r), Raise("ValueError", "DEFAULT cannot be dropped"))
                    ELSE [New(r) EXCEPT !.pc = "acquire", !.stage = "profile_exists"]]
            /\ pool' = IF reserved THEN pool ELSE TRUE
    /\ UNCHANGED <<checkedOut, catalog, granted>>

\* ORDER BY username
RECURSIVE OrderByUsername(_)
OrderByUsername(S) ==
    IF S = {} THEN <<>>
    ELSE LET first == CHOOSE x \in S :
                        \A y \in S \ {x} : Before(x.username, y.username)
         IN  <<first>> \o OrderByUsername(S \ {first})

\* SELECT username, account_status, created FROM dba_users WHERE profile =
\* :profile_name ORDER BY username, with profile_name=profile_name.upper()
profile_user_rows(profile_name) ==
    OrderByUsername(
        {[username |-> a.username, account_status |-> a.account_status] :
            a \in {b \in dba_users : b.profile = Upper(profile_name)}})

\* query_profile_users: the answer to its query of dba_users, or an
\* oracledb.Error that the except clause prints and re-raises
ProfileUsersQuery(t) ==
    LET tk == tasks[t] IN
    /\ tk.pc = "query1"
    /\ tk.stage = "query_profile_users"
    /\ \E failed \in BOOLEAN :
        tasks' = [tasks EXCEPT ![t] =
            IF failed
            THEN [tk EXCEPT !.pc = "release", !.query_failed = TRUE,
                            !.pending = Raise("oracledb.Error", "ORA-03113")]
            ELSE [tk EXCEPT !.pc = "release",
                            !.rows = profile_user_rows(tk.req.profile_name),
                            !.pending = Return("list")]]
    /\ UNCHANGED <<pool, checkedOut, catalog, granted>>

\* a variant that drops the profile whoever is assigned to it
after_query_profile_users_Unchecked(tk) ==
    IF tk.pending.kind = "raise" THEN Done(tk, tk.pending)
    ELSE get_connection([tk EXCEPT !.pending = NoResult], "drop_profile_ddl", pool)

\* delete_profile after query_profile_users: "if users: raise ValueError",
\* else drop_profile_ddl up to its await of the pool
after_query_profile_users(tk) ==
    IF tk.pending.kind = "raise" THEN Done(tk, tk.pending)
    ELSE IF tk.rows # <<>>
         THEN Done(tk, Raise("ValueError", "profile is assigned to users"))
    ELSE get_connection([tk EXCEPT !.pending = NoResult], "drop_profile_ddl", pool)

\* query_profile_users' finally, then the rest of delete_profile
ReleaseProfileUsers(t) ==
    LET tk == release_connection(tasks[t]) IN
    /\ tk.pc = "release"
    /\ tk.stage = "query_profile_users"
    /\ checkedOut' = CheckedOutAfterRelease
    /\ tasks' = [tasks EXCEPT ![t] = after_query_profile_users(tk)]
    /\ UNCHANGED <<pool, catalog, granted>>

DeleteInputs == [profile_names |-> {s_analytics, s_ANALYTICS, s_default, s_DEFAULT, s_x}]

\* The application in front of a database that has the profile ANALYTICS or
\* does not, with the account ALICE on one of its profiles.
InitDelete ==
    /\ pool = FALSE
    /\ checkedOut = 0
    /\ dba_sys_privs = {}
    /\ dba_role_privs = {}
    /\ dba_tab_privs = {}
    /\ dba_col_privs = {}
    /\ dba_profiles \in {{s_DEFAULT}, {s_DEFAULT, s_ANALYTICS}}
    /\ dba_users \in {{[a EXCEPT !.profile = p] : a \in Accounts0} :
                            p \in dba_profiles}
    /\ user_info = {}
    /\ granted = {}
    /\ tasks = [t \in Tasks |-> IdleTask]

NextDelete ==
    \/ Startup
    \/ \E t \in Tasks :
        \/ DeleteProfile(t, DeleteInputs)
        \/ ProfileStep(t)
        \/ ProfileUsersQuery(t)
        \/ ReleaseProfileUsers(t)
        \/ DaoStep(t)

SpecDelete == InitDelete /\ [][NextDelete]_vars

(***************************************************************************)
(* Two concurrent create_profile calls                                     *)
(***************************************************************************)
\* ProfileService.create_profile, called while another call may be in
\* flight, up to profile_exists' await of the pool
ConcurrentCreateProfile(t, D) ==
    /\ tasks[t].pc = "idle"
    /\ \E profile_name \in D.profile_names, limit \in D.limits :
        LET r == Req([op |-> "create_profile", profile_name |-> profile_name,
                      sessions_per_user |-> limit, connect_time |-> limit,
                      idle_time |-> limit])
            v == create_profile_name_check(r)
        IN  /\ tasks' = [tasks EXCEPT ![t] =
                    IF v.kind = "raise" THEN Done(New(r), v)
                    ELSE [New(r) EXCEPT !.pc = "acquire", !.stage = "profile_exists"]]
            /\ pool' = IF v.kind = "raise" THEN pool ELSE TRUE
    /\ UNCHANGED <<checkedOut, catalog, granted>>

CreateRaceInputs ==
    [profile_names |-> {s_analytics, s_Analytics}, limits |-> {s_30, s_UNLIMITED}]

\* The application after import, in front of a database with the DEFAULT
\* profile only, with two callers about to call.
InitCreateRace ==
    /\ pool = FALSE
    /\ checkedOut = 0
    /\ dba_sys_privs = {}
    /\ dba_role_privs = {}
    /\ dba_tab_privs = {}
    /\ dba_col_privs = {}
    /\ dba_profiles = {s_DEFAULT}
    /\ dba_users = Accounts0
    /\ user_info = {}
    /\ granted = {}
    /\ tasks = [t \in Callers |-> IdleTask]

NextCreateRace ==
    \E t \in Callers :
        \/ ConcurrentCreateProfile(t, CreateRaceInputs)
        \/ ProfileStep(t)
        \/ AcquireDDL(t)
        \/ ExecuteDDL(t)
        \/ ReleaseDDL(t)

SpecCreateRace == InitCreateRace /\ [][NextCreateRace]_vars

(***************************************************************************)
(* UserService.update_user with any of its optional arguments              *)
(***************************************************************************)
\* UserService.update_user: "Default tablespace and temporary tablespace
\* cannot be the same", then the privilege check or the DAO call
UpdateUserFields(t, D) ==
    \E username \in D.usernames, password \in D.passwords,
       default_tablespace \in D.default_tablespaces,
       temporary_tablespace \in D.temporary_tablespaces,
       quota \in D.quotas, profile \in D.profiles :
        LET r == Req([op |-> "update_user", username |-> username,
                      password |-> password,
                      default_tablespace |-> default_tablespace,
                      temporary_tablespace |-> temporary_tablespace,
                      quota |-> quota, profile |-> profile])
        IN  StartUserCommand(t, r,
                IF /\ temporary_tablespace # <<>> /\ default_tablespace # <<>>
                   /\ default_tablespace = temporary_tablespace
                THEN Raise("ValueError", "tablespaces cannot be the same")
                ELSE Return("None"))

AlterInputs ==
    [usernames |-> {s_alice, s_ghost},
     passwords |-> {<<>>, s_pw},
     default_tablespaces |-> {<<>>, s_USERS, s_NOPE},
     temporary_tablespaces |-> {<<>>, s_TEMP, s_USERS},
     quotas |-> {<<>>, s_10M},
     profiles |-> {<<>>, s_ANALYTICS, s_NOPE}]

\* The application after startup, in front of a database with the account
\* ALICE and the profiles DEFAULT and ANALYTICS.
InitAlter ==
    /\ pool = TRUE
    /\ checkedOut = 0
    /\ dba_sys_privs = {}
    /\ dba_role_privs = {}
    /\ dba_tab_privs = {}
    /\ dba_col_privs = {}
    /\ dba_profiles = {s_DEFAULT, s_ANALYTICS}
    /\ dba_users = Accounts0
    /\ user_info = {}
    /\ granted = {}
    /\ tasks = [t \in Tasks |-> IdleTask]

NextAlter ==
    \E t \in Tasks :
        \/ UpdateUserFields(t, AlterInputs)
        \/ AcquireDDL(t)
        \/ ExecuteDDL(t)
        \/ ReleaseDDL(t)

SpecAlter == InitAlter /\ [][NextAlter]_vars

(***************************************************************************)
(* Routes: GET /security/vpd                                               *)
(***************************************************************************)
\* create_pool: max=10
PoolMax == 10

\* the page vpd_page answers with: the lists, or its except clause's error
VpdResponse(error) == [Return("200") EXCEPT !.msg = error]

\* routes/security.py vpd_page, up to its await of the pool: require_auth
\* answers 401 without a session username; a missing pool's RuntimeError is
\* caught by the handler's except clause
VpdPage(t, D) ==
    /\ tasks[t].pc = "idle"
    /\ \E session_username \in D.session_usernames :
        LET r == Req([op |-> "vpd_page", route |-> "GET /security/vpd",
                      session_username |-> session_username])
        IN  tasks' = [tasks EXCEPT ![t] =
                IF session_username = <<>>
                THEN Done(New(r), Raise("HTTPException", "401"))
                ELSE IF ~pool
                THEN Done(New(r), VpdResponse("pool not initialised"))
                ELSE [New(r) EXCEPT !.pc = "acquire", !.stage = "vpd_page"]]
    /\ UNCHANGED <<pool, checkedOut, catalog, granted>>

\* pool.acquire(): a connection, or an error the except clause turns into the
\* error page; with all PoolMax connections checked out the await never ends
VpdAcquire(t) ==
    LET tk == tasks[t] IN
    /\ tk.pc = "acquire"
    /\ tk.stage = "vpd_page"
    /\ checkedOut < PoolMax
    /\ \E ok \in BOOLEAN :
        IF ok
        THEN /\ checkedOut' = checkedOut + 1
             /\ tasks' = [tasks EXCEPT ![t] =
                    [tk EXCEPT !.pc = "set_user_dept", !.acq = @ + 1]]
        ELSE /\ checkedOut' = checkedOut
             /\ tasks' = [tasks EXCEPT ![t] =
                    Done([tk EXCEPT !.acq_failed = TRUE], VpdResponse("DPY-6005"))]
    /\ UNCHANGED <<pool, catalog, granted>>

\* BEGIN set_user_dept_proc(:username); END; inside "try: ... except
\* Exception: pass"
VpdSetUserDept(t) ==
    LET tk == tasks[t] IN
    /\ tk.pc = "set_user_dept"
    /\ \E failed \in BOOLEAN :
        tasks' = [tasks EXCEPT ![t] =
            [tk EXCEPT !.pc = "select_projects", !.queries = @ + 1]]
    /\ UNCHANGED <<pool, checkedOut, catalog, granted>>

\* the two SELECTs of vpd_page (projects, dba_policies): a failure goes to
\* the handler's "except Exception as e", which returns the error page
VpdSelect(t) ==
    LET tk == tasks[t] IN
    /\ tk.pc \in {"select_projects", "select_policies"}
    /\ \E failed \in BOOLEAN :
        tasks' = [tasks EXCEPT ![t] =
            IF failed
            THEN Done([tk EXCEPT !.queries = @ + 1, !.query_failed = TRUE],
                      VpdResponse("ORA-00942"))
            ELSE [tk EXCEPT !.queries = @ + 1,
                            !.pc = IF tk.pc = "select_projects"
                                   THEN "select_policies" ELSE "release"]]
    /\ UNCHANGED <<pool, checkedOut, catalog, granted>>

\* await db.release_connection(conn), the last statement before the page
VpdRelease(t) ==
    LET tk == tasks[t] IN
    /\ tk.pc = "release"
    /\ tk.stage = "vpd_page"
    /\ checkedOut' = CheckedOutAfterRelease
    /\ tasks' = [tasks EXCEPT ![t] = Done(release_connection(tk), VpdResponse(""))]
    /\ UNCHANGED <<pool, catalog, granted>>

SecurityInputs == [session_usernames |-> {s_Empty, s_bob, s_sys}]

\* The application after startup, no request in flight.
InitSecurity ==
    /\ pool = TRUE
    /\ checkedOut = 0
    /\ dba_sys_privs = {}
    /\ dba_role_privs = {}
    /\ dba_tab_privs = {}
    /\ dba_col_privs = {}
    /\ dba_profiles = {s_DEFAULT}
    /\ dba_users = Accounts0
    /\ user_info = {}
    /\ granted = {}
    /\ tasks = [t \in Tasks |-> IdleTask]

NextSecurity ==
    \E t \in Tasks :
        \/ VpdPage(t, SecurityInputs)
        \/ VpdAcquire(t)
        \/ VpdSetUserDept(t)
        \/ VpdSelect(t)
        \/ VpdRelease(t)
        \/ Finish(t)

SpecSecurity == InitSecurity /\ [][NextSecurity]_vars

(***************************************************************************)
(* The pool's lifecycle and the DAO methods that need it                   *)
(***************************************************************************)
\* main.shutdown_event: db.close_pool(), "if self.pool: close; pool = None"
ClosePool ==
    /\ pool
    /\ AllIdle
    /\ checkedOut = 0
    /\ pool' = FALSE
    /\ UNCHANGED <<checkedOut, catalog, tasks, granted>>

\* UserService.get_user_privileges: query_user_privileges(username.upper()),
\* which asks for a connection without creating the pool
GetUserPrivileges(t, D) ==
    /\ AllIdle
    /\ \E username \in D.readers :
        tasks' = [tasks EXCEPT ![t] =
            get_connection(New(Req([op |-> "get_user_privileges",
                                    username |-> username])),
                           "query_user_privileges", pool)]
    /\ UNCHANGED <<pool, checkedOut, catalog, granted>>

\* the rows of a SELECT without ORDER BY, in any order
AnyOrder(S) == {s \in [1..Cardinality(S) -> S] : Range(s) = S}

\* SELECT privilege, admin_option, 'DIRECT' as grant_type FROM dba_sys_privs
\* WHERE grantee = :username, with username=username.upper()
user_system_privilege_rows(username) ==
    {[privilege |-> f.privilege, admin_option |-> f.admin_option,
      grant_type |-> "DIRECT"] :
        f \in {h \in dba_sys_privs : h.grantee = Upper(username)}}

\* SELECT granted_role as privilege, admin_option, 'ROLE' as grant_type FROM
\* dba_role_privs WHERE grantee = :username
user_role_rows(username) ==
    {[privilege |-> f.granted_role, admin_option |-> f.admin_option,
      grant_type |-> "ROLE"] :
        f \in {h \in dba_role_privs : h.grantee = Upper(username)}}

\* query_user_privileges: its two queries; it has no except clause, so an
\* oracledb.Error goes through its finally clause to the caller
UserPrivilegesQuery(t) ==
    LET tk == tasks[t]
        username == Upper(tk.req.username)
    IN
    /\ tk.pc \in {"query1", "query2"}
    /\ tk.stage = "query_user_privileges"
    /\ \E failed \in BOOLEAN :
        IF failed
        THEN tasks' = [tasks EXCEPT ![t] =
                [tk EXCEPT !.pc = "release", !.query_failed = TRUE,
                           !.pending = Raise("oracledb.Error", "ORA-03113")]]
        ELSE IF tk.pc = "query1"
        THEN \E rows \in AnyOrder(user_system_privilege_rows(username)) :
                tasks' = [tasks EXCEPT ![t] =
                    [tk EXCEPT !.pc = "query2", !.queries = @ + 1, !.rows = rows]]
        ELSE \E rows \in AnyOrder(user_role_rows(username)) :
                tasks' = [tasks EXCEPT ![t] =
                    [tk EXCEPT !.pc = "release", !.rows = @ \o rows,
                               !.pending = Return("privileges")]]
    /\ UNCHANGED <<pool, checkedOut, catalog, granted>>

\* query_user_privileges: finally
ReleaseUserPrivileges(t) ==
    LET tk == tasks[t] IN
    /\ tk.pc = "release"
    /\ tk.stage = "query_user_privileges"
    /\ checkedOut' = CheckedOutAfterRelease
    /\ tasks' = [tasks EXCEPT ![t] = Done(release_connection(tk), tk.pending)]
    /\ UNCHANGED <<pool, catalog, granted>>

\* before startup, in service, and after shutdown: a grant, a revoke, and
\* the two reads of a principal's privileges
NextPool ==
    \/ Startup
    \/ ClosePool
    \/ \E t \in Tasks :
        \/ GrantSystemPrivilege(t, GrantReadInputs)
        \/ RevokeSystemPrivilege(t, GrantReadInputs)
        \/ GetGranteePrivileges(t, GrantReadInputs)
        \/ GetUserPrivileges(t, GrantReadInputs)
        \/ AcquireQuery(t)
        \/ GranteePrivilegesQuery1(t)
        \/ GranteePrivilegesQuery2(t)
        \/ ReleaseGranteePrivileges(t)
        \/ UserPrivilegesQuery(t)
        \/ ReleaseUserPrivileges(t)
        \/ DaoStep(t)

SpecPool == Init /\ [][NextPool]_vars

(***************************************************************************)
(* Routes: POST /login                                                     *)
(***************************************************************************)
\* "LOCKED" in account_status
Contains(sub, s) ==
    \E k \in 1..(Len(s) - Len(sub) + 1) : SubSeq(s, k, k + Len(sub) - 1) = sub

\* utils/password.py hash_password: the bcrypt hash of a password (the salt
\* is left out: one password, one hash)
hash_password(password) == s_bcrypt \o password

\* utils/password.py verify_password: bcrypt.checkpw, False on any exception
verify_password(password, password_hash) == password_hash = hash_password(password)

\* routes/auth.py login, up to get_by_username's await of the pool, which it
\* creates if there is none
Login(t, D) ==
    /\ tasks[t].pc = "idle"
    /\ \E username \in D.usernames, password \in D.passwords,
          session \in D.sessions :
        tasks' = [tasks EXCEPT ![t] =
            [New(Req([op |-> "login", route |-> "POST /login",
                      username |-> username, password |-> password,
                      session_username |-> session]))
                EXCEPT !.pc = "acquire", !.stage = "get_by_username",
                       !.session = session]]
    /\ pool' = TRUE
    /\ UNCHANGED <<checkedOut, catalog, granted>>

\* get_connection in get_by_username and in get_user_info, outside their
\* try: an error goes up to the route's except clause, which answers 500
LoginAcquire(t) ==
    LET tk == tasks[t] IN
    /\ tk.pc = "acquire"
    /\ tk.stage \in {"get_by_username", "get_user_info"}
    /\ \E ok \in BOOLEAN :
        IF ok
        THEN /\ checkedOut' = checkedOut + 1
             /\ tasks' = [tasks EXCEPT ![t] =
                    [tk EXCEPT !.pc = "query1", !.acq = @ + 1, !.queries = @ + 1]]
        ELSE /\ checkedOut' = checkedOut
             /\ tasks' = [tasks EXCEPT ![t] =
                    Done([tk EXCEPT !.acq_failed = TRUE], Return("500"))]
    /\ UNCHANGED <<pool, catalog, granted>>

\* UserInfoDAO.get_by_username: SELECT ... FROM user_info WHERE
\* UPPER(username) = :username, fetchone; "except oracledb.Error: return None"
GetByUsernameQuery(t) ==
    LET tk == tasks[t]
        found == {u \in user_info : Upper(u.username) = Upper(tk.req.username)}
    IN
    /\ tk.pc = "query1"
    /\ tk.stage = "get_by_username"
    /\ \E failed \in BOOLEAN :
        \E row \in IF failed \/ found = {} THEN {<<>>} ELSE {<<u>> : u \in found} :
            tasks' = [tasks EXCEPT ![t] =
                [tk EXCEPT !.pc = "release", !.user_info = row,
                           !.query_failed = failed]]
    /\ UNCHANGED <<pool, checkedOut, catalog, granted>>

\* a variant that goes on to the Oracle check whatever the hash says
login_after_user_info_NoBcrypt(tk) == [tk EXCEPT !.pc = "connect"]

\* AuthService.login after get_by_username: "if user_info: if not
\* verify_password(...): return None" (the route answers 401), then
\* user_dao.verify_password
login_after_user_info(tk) ==
    IF /\ tk.user_info # <<>>
       /\ ~verify_password(tk.req.password, tk.user_info[1].password_hash)
    THEN Done(tk, Return("401"))
    ELSE [tk EXCEPT !.pc = "connect"]

\* get_by_username: finally
ReleaseGetByUsername(t) ==
    LET tk == tasks[t] IN
    /\ tk.pc = "release"
    /\ tk.stage = "get_by_username"
    /\ checkedOut' = CheckedOutAfterRelease
    /\ tasks' = [tasks EXCEPT ![t] = login_after_user_info(release_connection(tk))]
    /\ UNCHANGED <<pool, catalog, granted>>

\* whether the engine lets username connect with password: the account
\* exists, the password is its password and it is open
CanConnect(username, password) ==
    \E a \in dba_users :
        /\ a.username = Upper(username)
        /\ a.password = password
        /\ a.account_status = s_OPEN

\* UserDAO.verify_password: oracledb.connect_async with the credentials;
\* "except Exception: return False" (the route answers 401). On success
\* get_user_info creates the pool if there is none and asks for a connection
VerifyPassword(t) ==
    LET tk == tasks[t] IN
    /\ tk.pc = "connect"
    /\ \E is_valid \in IF CanConnect(tk.req.username, tk.req.password)
                       THEN BOOLEAN ELSE {FALSE} :
        /\ tasks' = [tasks EXCEPT ![t] =
                IF is_valid
                THEN [tk EXCEPT !.pc = "acquire", !.stage = "get_user_info",
                                !.is_valid = TRUE]
                ELSE Done(tk, Return("401"))]
        /\ pool' = IF is_valid THEN TRUE ELSE pool
    /\ UNCHANGED <<checkedOut, catalog, granted>>

\* UserDAO.get_user_info: SELECT ... FROM dba_users WHERE username =
\* :username, with username=username.upper(); no except clause
GetUserInfoQuery(t) ==
    LET tk == tasks[t]
        found == {a \in dba_users : a.username = Upper(tk.req.username)}
    IN
    /\ tk.pc = "query1"
    /\ tk.stage = "get_user_info"
    /\ \E failed \in BOOLEAN :
        \E row \in IF failed \/ found = {} THEN {<<>>} ELSE {<<a>> : a \in found} :
            tasks' = [tasks EXCEPT ![t] =
                [tk EXCEPT !.pc = "release", !.oracle_user = row,
                           !.query_failed = failed,
                           !.pending = IF failed
                                       THEN Raise("oracledb.Error", "ORA-03113")
                                       ELSE Return("oracle_user")]]
    /\ UNCHANGED <<pool, checkedOut, catalog, granted>>

\* a variant of the route without its check of the account status
login_response_LockedAllowed(tk) ==
    IF tk.pending.kind = "raise" THEN Done(tk, Return("500"))
    ELSE IF tk.oracle_user = <<>> THEN Done(tk, Return("401"))
    ELSE Done([tk EXCEPT !.session = tk.oracle_user[1].username], Return("303"))

\* the rest of the route once get_user_info has ended: 500 from its except
\* clause, 401 "if not user", 403 if "LOCKED" in user.account_status,
\* otherwise session["username"] = user.username and the redirect
login_response(tk) ==
    IF tk.pending.kind = "raise" THEN Done(tk, Return("500"))
    ELSE IF tk.oracle_user = <<>> THEN Done(tk, Return("401"))
    ELSE IF Contains(s_LOCKED, tk.oracle_user[1].account_status)
    THEN Done(tk, Return("403"))
    ELSE Done([tk EXCEPT !.session = tk.oracle_user[1].username], Return("303"))

\* get_user_info: finally
ReleaseGetUserInfo(t) ==
    LET tk == tasks[t] IN
    /\ tk.pc = "release"
    /\ tk.stage = "get_user_info"
    /\ checkedOut' = CheckedOutAfterRelease
    /\ tasks' = [tasks EXCEPT ![t] = login_response(release_connection(tk))]
    /\ UNCHANGED <<pool, catalog, granted>>

\* an administrator's session locks an open account (UserDAO.lock_user:
\* ALTER USER ... ACCOUNT LOCK) or drops an account while a login is under way
AccountLockedOrDropped ==
    /\ \E a \in dba_users :
        \/ /\ a.account_status = s_OPEN
           /\ \E status \in {s_LOCKED, s_EXPIRED_LOCKED} :
                dba_users' = (dba_users \ {a})
                                \cup {[a EXCEPT !.account_status = status]}
        \/ dba_users' = dba_users \ {a}
    /\ UNCHANGED <<pool, checkedOut, dba_sys_privs, dba_role_privs, dba_tab_privs,
                   dba_col_privs, dba_profiles, user_info, tasks, granted>>

LoginInputs ==
    [usernames |-> {s_alice, s_bob, s_ghost},
     passwords |-> {s_old, s_pw},
     sessions |-> {s_Empty, s_sys}]

\* The accounts ALICE (open, password "old") and BOB (locked, password "pw").
LoginAccounts ==
    Accounts0 \cup
        {[username |-> s_BOB, password |-> s_pw, default_tablespace |-> s_USERS,
          temporary_tablespace |-> s_TEMP, quota |-> <<>>, profile |-> s_DEFAULT,
          account_status |-> s_LOCKED]}

\* The application after startup; user_info holds no row, or a row for alice
\* whose hash is that of her Oracle password or of another one.
InitLogin ==
    /\ pool = TRUE
    /\ checkedOut = 0
    /\ dba_sys_privs = {}
    /\ dba_role_privs = {}
    /\ dba_tab_privs = {}
    /\ dba_col_privs = {}
    /\ dba_profiles = {s_DEFAULT}
    /\ dba_users = LoginAccounts
    /\ user_info \in {{}} \cup
            {{[username |-> s_alice, password_hash |-> hash_password(p)]} :
                p \in {s_old, s_pw}}
    /\ granted = {}
    /\ tasks = [t \in Tasks |-> IdleTask]

NextLogin ==
    \/ AccountLockedOrDropped
    \/ \E t \in Tasks :
        \/ Login(t, LoginInputs)
        \/ LoginAcquire(t)
        \/ GetByUsernameQuery(t)
        \/ ReleaseGetByUsername(t)
        \/ VerifyPassword(t)
        \/ GetUserInfoQuery(t)
        \/ ReleaseGetUserInfo(t)

SpecLogin == InitLogin /\ [][NextLogin]_vars

(***************************************************************************)
(* Vocabulary of the properties                                            *)
(***************************************************************************)
\* the identifier grammar: a letter, then letters, digits, '_', '$' or '#'
MatchesGrammar(s) ==
    /\ Len(s) >= 1
    /\ IsLetter(s[1])
    /\ \A i \in 2..Len(s) : IsIdentChar(s[i])

GrantRevokeOps ==
    {"grant_system_privilege", "revoke_system_privilege", "grant_role",
     "revoke_role", "grant_object_privilege", "revoke_object_privilege",
     "grant_column_privilege", "revoke_column_privilege"}

ObjectOps == {"grant_object_privilege", "revoke_object_privilege"}

ColumnOps == {"grant_column_privilege", "revoke_column_privilege"}

RoleOps == {"grant_role", "revoke_role"}

\* the operation ended by raising ValueError
RaisedValueError(tk) ==
    tk.pc = "done" /\ tk.outcome.kind = "raise" /\ tk.outcome.val = "ValueError"

\* the operation has neither acquired a connection nor sent anything
NoIO(tk) == tk.acq = 0 /\ tk.queries = 0 /\ tk.cmds = <<>>

\* rejected with a validation error, and no command sent
RejectedUnsent(tk) ==
    /\ tk.cmds = <<>>
    /\ tk.pc = "done" => RaisedValueError(tk)

\* a check_permission call that is decided by catalog lookups
IsLookupCheck(tk) ==
    /\ tk.req.op = "check_permission"
    /\ RequiredPrivs(tk.req.action) # <<>>
    /\ Upper(tk.req.username) \notin {s_SYS, s_SYSTEM}

\* the catalog's own facts about a principal (its canonical, upper-case name)
GrantedDirectly(g, p) ==
    \E f \in dba_sys_privs : f.grantee = g /\ f.privilege = p

RolesOf(g) == {f.granted_role : f \in {h \in dba_role_privs : h.grantee = g}}

GrantedThroughRole(g, p) == \E ro \in RolesOf(g) : GrantedDirectly(ro, p)

GrantedThroughSecondHop(g, p) ==
    \E r1 \in RolesOf(g) : \E r2 \in RolesOf(r1) : GrantedDirectly(r2, p)

\* the principal holds one of the action's privileges within one hop
HoldsWithinOneHop(tk) ==
    \E k \in DOMAIN RequiredPrivs(tk.req.action) :
        LET p == RequiredPrivs(tk.req.action)[k]
            g == Upper(tk.req.username)
        IN  GrantedDirectly(g, p) \/ GrantedThroughRole(g, p)

HoldsOnlyThroughSecondHop(tk) ==
    /\ ~HoldsWithinOneHop(tk)
    /\ \E k \in DOMAIN RequiredPrivs(tk.req.action) :
          GrantedThroughSecondHop(Upper(tk.req.username),
                                  RequiredPrivs(tk.req.action)[k])

Permitted(tk) == tk.pc = "done" /\ tk.outcome = Return("True")

(***************************************************************************)
(* C1.  Each of the eight grant/revoke operations, given a grantee that is *)
(* empty or outside the identifier grammar, raises a validation error and  *)
(* does no I/O: no connection acquired, no command sent.                   *)
(* Refuted by the code: '$' in _validate_identifier lets a grantee ending  *)
(* in a line feed through.                                                 *)
(***************************************************************************)
C1_InvalidGranteeRejectedWithoutIO ==
    \A t \in Tasks :
        (tasks[t].req.op \in GrantRevokeOps /\ ~MatchesGrammar(tasks[t].req.grantee))
            => (NoIO(tasks[t]) /\ (tasks[t].pc = "done" => RaisedValueError(tasks[t])))

(***************************************************************************)
(* C2.  A check_permission call decided by lookups permits whenever the    *)
(* principal holds one of the action's privileges directly or through a    *)
(* directly granted role.                                                  *)
(***************************************************************************)
\* as claimed: refuted when the pool cannot hand out a connection
C2_HolderPermitted ==
    \A t \in Tasks :
        (tasks[t].pc = "done" /\ IsLookupCheck(tasks[t]) /\ HoldsWithinOneHop(tasks[t]))
            => Permitted(tasks[t])

\* as amended: ... provided the pool hands has_privilege a connection; when
\* it does not, the pool's error leaves check_permission
C2_HolderPermittedWhenConnected ==
    \A t \in Tasks :
        (tasks[t].pc = "done" /\ IsLookupCheck(tasks[t]) /\ HoldsWithinOneHop(tasks[t]))
            => IF tasks[t].acq_failed
               THEN tasks[t].outcome = Raise("oracledb.Error", "DPY-6005")
               ELSE Permitted(tasks[t])

\* a holder through a role only, permitted after both queries answered
C2_Witness ==
    \E t \in Tasks :
        /\ Permitted(tasks[t]) /\ IsLookupCheck(tasks[t])
        /\ ~GrantedDirectly(Upper(tasks[t].req.username), s_CREATE_USER)
        /\ GrantedThroughRole(Upper(tasks[t].req.username), s_CREATE_USER)
        /\ tasks[t].queries = 2 /\ ~tasks[t].query_failed

(***************************************************************************)
(* C3.  A principal that holds the required privilege only through a       *)
(* second-hop role is not permitted, whatever the role-grant graph.        *)
(* Refuted by the code: a failed query makes has_privilege answer True.    *)
(***************************************************************************)
C3_SecondHopNotPermitted ==
    \A t \in Tasks :
        (IsLookupCheck(tasks[t]) /\ HoldsOnlyThroughSecondHop(tasks[t]))
            => ~Permitted(tasks[t])

(***************************************************************************)
(* C4.  When the principal holds none of the required privileges within    *)
(* one hop and the lookups succeed, check_permission raises                *)
(* PermissionError if raise_error, and returns False without raising if    *)
(* not.                                                                    *)
(***************************************************************************)
C4_DeniedRaisesOrReturnsFalse ==
    \A t \in Tasks :
        (/\ tasks[t].pc = "done" /\ IsLookupCheck(tasks[t])
         /\ ~HoldsWithinOneHop(tasks[t])
         /\ ~tasks[t].acq_failed /\ ~tasks[t].query_failed)
            => tasks[t].outcome =
                  IF tasks[t].req.raise_error
                  THEN Raise("PermissionError", "permission denied")
                  ELSE Return("False")

\* a holder through a second hop only, answered False
C4_Witness ==
    \E t \in Tasks :
        /\ tasks[t].pc = "done" /\ IsLookupCheck(tasks[t])
        /\ HoldsOnlyThroughSecondHop(tasks[t])
        /\ ~tasks[t].req.raise_error
        /\ tasks[t].outcome = Return("False")
        /\ tasks[t].queries = 2

(***************************************************************************)
(* C5.  check_permission returns True at once, with no catalog query, when *)
(* the action requires no privilege (an action missing from the mapping    *)
(* included) or the principal is SYS or SYSTEM in any letter case.         *)
(***************************************************************************)
C5_BypassWithoutQuery ==
    \A t \in Tasks :
        (/\ tasks[t].req.op = "check_permission"
         /\ \/ RequiredPrivs(tasks[t].req.action) = <<>>
            \/ Upper(tasks[t].req.username) \in {s_SYS, s_SYSTEM})
            => (Permitted(tasks[t]) /\ NoIO(tasks[t]))

\* SYSTEM in mixed case asking for a mapped action
C5_Witness ==
    \E t \in Tasks :
        /\ tasks[t].req.op = "check_permission"
        /\ tasks[t].req.username = s_System
        /\ tasks[t].req.action = "create_user"
        /\ Permitted(tasks[t]) /\ NoIO(tasks[t])

(***************************************************************************)
(* C6.  An object-class request whose privilege, upper-cased, is not       *)
(* SELECT, INSERT, UPDATE or DELETE, and a column-class request whose      *)
(* privilege is not SELECT or INSERT, raises an invalid-privilege error    *)
(* before any command is built or sent.                                    *)
(* Refuted by the code: the two revoke operations do not check it.         *)
(***************************************************************************)
C6_InvalidPrivilegeRejected ==
    \A t \in Tasks :
        (\/ /\ tasks[t].req.op \in ObjectOps
            /\ Upper(tasks[t].req.privilege) \notin {s_SELECT, s_INSERT, s_UPDATE, s_DELETE}
         \/ /\ tasks[t].req.op \in ColumnOps
            /\ Upper(tasks[t].req.privilege) \notin {s_SELECT, s_INSERT})
            => RejectedUnsent(tasks[t])

(***************************************************************************)
(* C7.  No command is sent for an object- or column-class request whose    *)
(* owner or table name is empty or outside the identifier grammar, whose   *)
(* column list is empty, or one of whose columns is outside the grammar;   *)
(* the operation raises a validation error instead.                        *)
(* Refuted by the code: owner, table and column names are not validated.   *)
(***************************************************************************)
C7_InvalidObjectNamesRejected ==
    \A t \in Tasks :
        (/\ tasks[t].req.op \in ObjectOps \cup ColumnOps
         /\ \/ ~MatchesGrammar(tasks[t].req.owner)
            \/ ~MatchesGrammar(tasks[t].req.table_name)
            \/ /\ tasks[t].req.op \in ColumnOps
               /\ \/ tasks[t].req.columns = <<>>
                  \/ \E k \in DOMAIN tasks[t].req.columns :
                        ~MatchesGrammar(tasks[t].req.columns[k]))
            => RejectedUnsent(tasks[t])

(***************************************************************************)
(* C8.  grant_role and revoke_role raise a validation error, sending no    *)
(* command, whenever the role name is empty or outside the grammar.        *)
(* Refuted by the code: '$' in _validate_identifier lets a role name       *)
(* ending in a line feed through.                                          *)
(***************************************************************************)
C8_InvalidRoleRejected ==
    \A t \in Tasks :
        (tasks[t].req.op \in RoleOps /\ ~MatchesGrammar(tasks[t].req.role))
            => RejectedUnsent(tasks[t])

(***************************************************************************)
(* C9.  Every connection a DAO operation acquires is released exactly once *)
(* on every exit path, a request rejected by validation acquires none, and *)
(* so no connection is checked out while no operation is in flight.        *)
(* Refuted by the code in its second part: create_profile and              *)
(* update_profile reject an invalid limit after profile_exists has         *)
(* acquired (and released) a connection.                                   *)
(***************************************************************************)
\* acquired connections are released, at most one is held, none when idle
ConnectionsBalanced ==
    /\ \A t \in Tasks :
        /\ tasks[t].pc \in {"idle", "done", "acquire"} => tasks[t].rel = tasks[t].acq
        /\ tasks[t].pc \in {"execute", "query1", "query2", "release"}
              => tasks[t].acq = tasks[t].rel + 1
    /\ checkedOut = Cardinality({t \in Tasks : tasks[t].acq # tasks[t].rel})

\* the call ended with a validation error (not an error about the catalog's
\* content, which can only be known after reading it)
RejectedByValidation(tk) ==
    /\ RaisedValueError(tk)
    /\ tk.outcome.msg \notin {"profile already exists", "profile does not exist"}

C9_ReleasedOnEveryPath ==
    /\ ConnectionsBalanced
    /\ \A t \in Tasks : RejectedByValidation(tasks[t]) => tasks[t].acq = 0

(***************************************************************************)
(* C10.  Once create_profile(N, ...) has succeeded, and while profile N    *)
(* exists, every later create_profile(N, ...) raises the "already exists"  *)
(* error and sends no CREATE PROFILE.                                      *)
(* Refuted by the code: profile_exists answers False when its query fails. *)
(* (A call that the pool gives no connection is let off: it sends nothing  *)
(* and reports the pool's error.)                                          *)
(***************************************************************************)
\* the call is a create_profile of a profile an earlier call has created
IsRepeatedCreate(tk) ==
    /\ tk.req.op = "create_profile"
    /\ Upper(tk.req.profile_name) \in dba_profiles \ {s_DEFAULT}
    /\ ~(tk.stage = "create_profile_ddl" /\ tk.pending = Return("None"))
    /\ ~(tk.stage = "create_profile_ddl" /\ tk.outcome = Return("None"))

C10_RepeatedCreateRejected ==
    \A t \in Tasks :
        IsRepeatedCreate(tasks[t])
            => /\ tasks[t].cmds = <<>>
               /\ (tasks[t].pc = "done" /\ ~tasks[t].acq_failed)
                     => tasks[t].outcome = Raise("ValueError", "profile already exists")

(***************************************************************************)
(* C11.  Every validation error of an orchestrator operation (the eight    *)
(* grant/revoke operations, the name and resource-limit checks of          *)
(* create_profile and update_profile) is raised before any connection is   *)
(* acquired and before any query or command is sent.                       *)
(* Refuted by the code: create_profile and update_profile check the        *)
(* resource limits after profile_exists has queried the catalog.           *)
(***************************************************************************)
C11_ValidationBeforeIO ==
    \A t \in Tasks : RejectedByValidation(tasks[t]) => NoIO(tasks[t])

(***************************************************************************)
(* C12.  When the engine rejects a dispatched grant or revoke command, the *)
(* operation raises to its caller an error carrying the engine's own       *)
(* diagnostic unchanged; the failure is never swallowed or reported as     *)
(* success.                                                                *)
(***************************************************************************)
\* the engine refused the command the operation sent
EngineRefused(tk) ==
    /\ tk.req.op \in GrantRevokeOps
    /\ tk.diags # <<>>
    /\ tk.diags[Len(tk.diags)] # "OK"

C13_ValidateIdentifierIsTheGrammar ==
    \A t \in Tasks :
        (tasks[t].pc = "done" /\ tasks[t].req.op = "validate_identifier")
            => tasks[t].outcome = Return(Bool(MatchesGrammar(tasks[t].req.name)))

(***************************************************************************)
(* C14.  validate_resource_limit(value) returns true exactly when value is *)
(* UNLIMITED or DEFAULT in any letter case, or is a base-10 integer        *)
(* greater than zero; false for "0", for negative integers and for every   *)
(* other token.                                                            *)
(* Refuted by the code: int() also reads digits separated by underscores.  *)
(***************************************************************************)
\* decimal notation of an integer: an optional sign, then digits; white
\* space around it is let pass
IsDecimalInteger(s) ==
    LET t == Strip(s)
        d == IF Len(t) > 0 /\ t[1] \in {"+", "-"} THEN Tail(t) ELSE t
    IN  Len(d) >= 1 /\ \A i \in DOMAIN d : IsDigit(d[i])

\* the integer written is greater than zero
IsAboveZero(s) ==
    LET t == Strip(s)
    IN  t[1] # "-" /\ \E i \in DOMAIN t : IsDigit(t[i]) /\ t[i] # "0"

IsUnlimitedOrDefault(s) ==
    /\ Len(s) \in {Len(s_UNLIMITED), Len(s_DEFAULT)}
    /\ \E w \in {s_UNLIMITED, s_DEFAULT} :
        /\ Len(w) = Len(s)
        /\ \A i \in DOMAIN w : s[i] = w[i] \/ UpperChar(s[i]) = w[i]

C14_ValidateResourceLimit ==
    \A t \in Tasks :
        (tasks[t].pc = "done" /\ tasks[t].req.op = "validate_resource_limit")
            => tasks[t].outcome =
                  Return(Bool(\/ IsUnlimitedOrDefault(tasks[t].req.value)
                              \/ /\ IsDecimalInteger(tasks[t].req.value)
                                 /\ IsAboveZero(tasks[t].req.value)))

(***************************************************************************)
(* C15.  For every valid (privilege, grantee, with_admin) the command of a *)
(* system-privilege grant is 'GRANT <privilege> TO <grantee>', followed by *)
(* ' WITH ADMIN OPTION' exactly when with_admin is true, so that reading   *)
(* the command back gives the same privilege, the same grantee (a          *)
(* principal's name in its canonical upper case) and the same flag.        *)
(***************************************************************************)
StartsWith(s, p) == Len(s) >= Len(p) /\ SubSeq(s, 1, Len(p)) = p

\* where p first occurs in s; 0 when it does not
IndexOf(s, p) ==
    LET hits == {i \in 1..(Len(s) - Len(p) + 1) : SubSeq(s, i, i + Len(p) - 1) = p}
    IN  IF hits = {} THEN 0 ELSE CHOOSE i \in hits : \A j \in hits : i <= j

\* GRANT <privilege> TO <grantee> [WITH ADMIN OPTION], read back: the
\* privilege is the words before TO, the grantee the single word after it
ParseGrant(cmd) ==
    LET body == SubSeq(cmd, Len(t_GRANT) + 1, Len(cmd))
        k == IndexOf(body, t_TO)
        rest == SubSeq(body, k + Len(t_TO), Len(body))
        sp == IndexOf(rest, <<" ">>)
        option == IF sp = 0 THEN <<>> ELSE SubSeq(rest, sp, Len(rest))
    IN  [wellformed |-> /\ StartsWith(cmd, t_GRANT)
                        /\ k > 1
                        /\ option \in {<<>>, t_WITH_ADMIN_OPTION},
         privilege |-> SubSeq(body, 1, k - 1),
         grantee |-> IF sp = 0 THEN rest ELSE SubSeq(rest, 1, sp - 1),
         with_admin |-> option = t_WITH_ADMIN_OPTION]

IsValidSystemGrant(tk) ==
    /\ tk.req.op = "grant_system_privilege"
    /\ tk.req.privilege \in EngineSysPrivs
    /\ MatchesGrammar(tk.req.grantee)

C15_SystemGrantRoundTrip ==
    \A t \in Tasks :
        (IsValidSystemGrant(tasks[t]) /\ tasks[t].cmds # <<>>)
            => /\ Len(tasks[t].cmds) = 1
               /\ ParseGrant(tasks[t].cmds[1]) =
                     [wellformed |-> TRUE,
                      privilege |-> tasks[t].req.privilege,
                      grantee |-> Upper(tasks[t].req.grantee),
                      with_admin |-> tasks[t].req.with_admin]

\* SELECT ANY TABLE to analyst without the admin option: the command sent is
\* GRANT SELECT ANY TABLE TO ANALYST
C15_Witness ==
    \E t \in Tasks :
        /\ IsValidSystemGrant(tasks[t])
        /\ tasks[t].req.privilege = s_SELECT_ANY_TABLE
        /\ tasks[t].req.grantee = s_analyst
        /\ ~tasks[t].req.with_admin
        /\ tasks[t].pc = "done"
        /\ tasks[t].cmds =
              << <<"G", "R", "A", "N", "T", " ", "S", "E", "L", "E", "C", "T", " ",
                   "A", "N", "Y", " ", "T", "A", "B", "L", "E", " ", "T", "O", " ",
                   "A", "N", "A", "L", "Y", "S", "T">> >>

(***************************************************************************)
(* C16.  grant_column_privilege(privilege, owner, table, columns, grantee) *)
(* generates 'GRANT <PRIVILEGE>(<COL1>,<COL2>,...) ON <OWNER>.<TABLE> TO   *)
(* <GRANTEE>', every identifier in upper case and the columns in the given *)
(* order; for SELECT on [id, name] of HR.EMPLOYEES to CLERK exactly        *)
(* GRANT SELECT(ID,NAME) ON HR.EMPLOYEES TO CLERK.                         *)
(***************************************************************************)
\* the upper-cased names, each between the quote marks q, joined by sep
RECURSIVE NamesJoined(_, _, _)
NamesJoined(names, q, sep) ==
    IF names = <<>> THEN <<>>
    ELSE q \o Upper(Head(names)) \o q
            \o (IF Len(names) = 1 THEN <<>> ELSE sep)
            \o NamesJoined(Tail(names), q, sep)

\* the text of a column grant, with the quote marks q and the separator sep
ColumnGrantText(r, q, sep) ==
    <<"G", "R", "A", "N", "T", " ">> \o Upper(r.privilege)
        \o <<"(">> \o NamesJoined(r.columns, q, sep) \o <<")">>
        \o <<" ", "O", "N", " ">> \o q \o Upper(r.owner) \o q
        \o <<".">> \o q \o Upper(r.table_name) \o q
        \o <<" ", "T", "O", " ">> \o Upper(r.grantee)

IsValidColumnGrant(tk) ==
    /\ tk.req.op = "grant_column_privilege"
    /\ Upper(tk.req.privilege) \in {s_SELECT, s_INSERT}
    /\ MatchesGrammar(tk.req.owner) /\ MatchesGrammar(tk.req.table_name)
    /\ tk.req.columns # <<>>
    /\ \A k \in DOMAIN tk.req.columns : MatchesGrammar(tk.req.columns[k])
    /\ MatchesGrammar(tk.req.grantee)

\* as claimed: bare names, columns separated by a comma
C16_ColumnGrantTextBare ==
    \A t \in Tasks :
        (IsValidColumnGrant(tasks[t]) /\ tasks[t].cmds # <<>>)
            => tasks[t].cmds = <<ColumnGrantText(tasks[t].req, <<>>, <<",">>)>>

\* as amended: owner, table and every column between double quotes, the
\* columns separated by a comma and a space, the grantee bare
C16_ColumnGrantTextQuoted ==
    \A t \in Tasks :
        (IsValidColumnGrant(tasks[t]) /\ tasks[t].cmds # <<>>)
            => tasks[t].cmds = <<ColumnGrantText(tasks[t].req, <<"\"">>, <<",", " ">>)>>

\* select on [id, name] of hr.employees to clerk: the command sent is
\* GRANT SELECT("ID", "NAME") ON "HR"."EMPLOYEES" TO CLERK
C16_Witness ==
    \E t \in Tasks :
        /\ IsValidColumnGrant(tasks[t])
        /\ tasks[t].req.privilege = s_select
        /\ tasks[t].req.owner = s_hr /\ tasks[t].req.table_name = s_employees
        /\ tasks[t].req.columns = <<s_id, s_name>>
        /\ tasks[t].req.grantee = s_clerk
        /\ tasks[t].pc = "done"
        /\ tasks[t].cmds =
              << <<"G", "R", "A", "N", "T", " ", "S", "E", "L", "E", "C", "T", "(",
                   "\"", "I", "D", "\"", ",", " ", "\"", "N", "A", "M", "E", "\"", ")",
                   " ", "O", "N", " ", "\"", "H", "R", "\"", ".",
                   "\"", "E", "M", "P", "L", "O", "Y", "E", "E", "S", "\"",
                   " ", "T", "O", " ", "C", "L", "E", "R", "K">> >>

(***************************************************************************)
(* C17.  After grant_system_privilege(P, G, with_admin=false) has          *)
(* completed successfully and before any revoke of (P, G),                 *)
(* get_grantee_privileges(G), G in any letter case, returns a list with a  *)
(* record of privilege P, class SYSTEM and admin_option NO: the read shows *)
(* the live catalog.                                                       *)
(* Refuted by the code: a grantee accepted with a trailing line feed is    *)
(* granted the privilege under its name without the line feed, and the     *)
(* read, which looks for the name as given, finds nothing.                 *)
(* (The record may say YES where the engine holds an admin option from     *)
(* another grant; the formula lets that pass.)                             *)
(***************************************************************************)
\* the read returned a list
ReadReturned(tk) ==
    /\ tk.pc = "done"
    /\ tk.req.op = "get_grantee_privileges"
    /\ tk.outcome = Return("list")

HasGrantRecord(tk, g) ==
    \E k \in DOMAIN tk.rows :
        /\ tk.rows[k].privilege = g.privilege
        /\ tk.rows[k].privilege_type = "SYSTEM"
        /\ \/ tk.rows[k].admin_option = "NO"
           \/ \E f \in dba_sys_privs :
                /\ f.privilege = g.privilege /\ f.admin_option = "YES"
                /\ f.grantee = Unquoted(g.grantee)

C17_GrantVisibleToRead ==
    \A t \in Tasks : \A g \in granted :
        (ReadReturned(tasks[t]) /\ Upper(tasks[t].req.grantee) = Upper(g.grantee))
            => HasGrantRecord(tasks[t], g)

(***************************************************************************)
(* C18.  If a catalog lookup performed for a permission check fails for an *)
(* infrastructure reason (the connection cannot be acquired, or a query    *)
(* raises), the check fails open: PermissionChecker.check_permission and   *)
(* UserService.check_privilege both report the privilege as held, rather   *)
(* than denying or raising.                                                *)
(***************************************************************************)
\* a finished permission check of either kind that did go to the catalog
IsFinishedCheck(tk) ==
    /\ tk.pc = "done"
    /\ IsLookupCheck(tk) \/ tk.req.op = "check_privilege"

\* as claimed: refuted by check_permission when the pool cannot hand out a
\* connection
C18_FailsOpen ==
    \A t \in Tasks :
        (IsFinishedCheck(tasks[t]) /\ (tasks[t].acq_failed \/ tasks[t].query_failed))
            => tasks[t].outcome = Return("True")

\* as amended: a query that raises makes both checks report the privilege as
\* held; a connection that cannot be acquired makes check_privilege report it
\* as held and leaves check_permission as the pool's error
C18_FailsOpenExceptAcquireInCheckPermission ==
    \A t \in Tasks :
        IsFinishedCheck(tasks[t]) =>
            /\ tasks[t].query_failed => tasks[t].outcome = Return("True")
            /\ tasks[t].acq_failed =>
                IF tasks[t].req.op = "check_privilege"
                THEN tasks[t].outcome = Return("True")
                ELSE tasks[t].outcome = Raise("oracledb.Error", "DPY-6005")

\* check_privilege reporting a privilege as held that the catalog does not
\* give, because no connection could be acquired
C18_Witness ==
    \E t \in Tasks :
        /\ IsFinishedCheck(tasks[t])
        /\ tasks[t].req.op = "check_privilege"
        /\ tasks[t].acq_failed
        /\ tasks[t].outcome = Return("True")
        /\ ~GrantedDirectly(Upper(tasks[t].req.username), tasks[t].req.privilege)
        /\ ~GrantedThroughRole(Upper(tasks[t].req.username), tasks[t].req.privilege)

(***************************************************************************)
(* C20.  UserService.create_user, update_user and delete_user, when called *)
(* with a current_user for whom the lookup of CREATE USER, ALTER USER or   *)
(* DROP USER respectively completes with a negative result, raise          *)
(* PermissionError and dispatch no CREATE USER, ALTER USER or DROP USER    *)
(* command.                                                                *)
(***************************************************************************)
\* the privilege the specification names for each command
PrivilegeOfCommand(op) ==
    IF op = "create_user" THEN s_CREATE_USER
    ELSE IF op = "update_user" THEN s_ALTER_USER
    ELSE s_DROP_USER

\* both queries of the lookup were sent and none failed, and the catalog
\* gives current_user the privilege neither directly nor through a role
LookupNegative(tk) ==
    /\ tk.req.op \in {"create_user", "update_user", "delete_user"}
    /\ tk.req.current_user # <<>>
    /\ tk.queries = 2
    /\ ~tk.query_failed
    /\ ~GrantedDirectly(Upper(tk.req.current_user), PrivilegeOfCommand(tk.req.op))
    /\ ~GrantedThroughRole(Upper(tk.req.current_user), PrivilegeOfCommand(tk.req.op))

C20_DeniedUserCommandNotDispatched ==
    \A t \in Tasks :
        LookupNegative(tasks[t]) =>
            /\ tasks[t].cmds = <<>>
            /\ tasks[t].pc \in {"query2", "release", "done"}
            /\ tasks[t].pc = "done" =>
                    tasks[t].outcome = Raise("PermissionError", "permission denied")

\* delete_user denied after a negative lookup, its one connection returned
C20_Witness ==
    \E t \in Tasks :
        /\ LookupNegative(tasks[t])
        /\ tasks[t].req.op = "delete_user"
        /\ tasks[t].pc = "done"
        /\ tasks[t].outcome.val = "PermissionError"
        /\ tasks[t].acq = 1 /\ tasks[t].rel = 1

(***************************************************************************)
(* C19.  Every mutating administrative action named in the Action-         *)
(* Privilege Mapping (create/alter/drop user, create/alter/drop profile,   *)
(* create/alter/drop role, grant role, grant system privilege) is          *)
(* dispatched to the engine only after a privilege check of the acting     *)
(* principal for that action has succeeded in the same request; a request  *)
(* by an authenticated principal lacking the mapped privilege never causes *)
(* the command to be dispatched.                                           *)
(* Refuted by the code: the grant form's route authenticates the session   *)
(* and calls the service, and neither of them checks a privilege.          *)
(***************************************************************************)
\* the action of the mapping a request of the grant form performs
ActionOfRequest(r) == r.op

\* an authenticated principal, not SYS or SYSTEM, to whom the catalog gives
\* none of the privileges mapped to the action of its request
LacksMappedPrivilege(r) ==
    /\ r.route # ""
    /\ r.session_username # <<>>
    /\ Upper(r.session_username) \notin {s_SYS, s_SYSTEM}
    /\ \A k \in DOMAIN RequiredPrivs(ActionOfRequest(r)) :
        LET p == RequiredPrivs(ActionOfRequest(r))[k]
            g == Upper(r.session_username)
        IN  ~GrantedDirectly(g, p) /\ ~GrantedThroughRole(g, p)

C19_DispatchOnlyForPrivilegedPrincipal ==
    \A t \in Tasks :
        LacksMappedPrivilege(tasks[t].req) => tasks[t].cmds = <<>>

(***************************************************************************)
(* C21.  get_user_capabilities(principal) returns a mapping whose key set  *)
(* is exactly the set of actions in the Action-Privilege Mapping and whose *)
(* value for each action equals check_permission(principal, action,        *)
(* raise_error=False); it never raises a permission-denied error, for any  *)
(* principal.                                                              *)
(***************************************************************************)
IsCapabilities(tk) == tk.req.op = "get_user_capabilities"

CapabilitiesReturned(tk) ==
    IsCapabilities(tk) /\ tk.pc = "done" /\ tk.outcome.kind = "return"

\* what check_permission(username, action, raise_error=False) answers when
\* no query of its lookup fails
CheckPermissionAnswer(username, action) ==
    \/ RequiredPrivs(action) = <<>>
    \/ Upper(username) \in {s_SYS, s_SYSTEM}
    \/ \E k \in DOMAIN RequiredPrivs(action) :
        \/ GrantedDirectly(Upper(username), RequiredPrivs(action)[k])
        \/ GrantedThroughRole(Upper(username), RequiredPrivs(action)[k])

\* one value per action of the mapping; each is check_permission's answer,
\* which is also True for an action whose lookup had a failing query
C21_CapabilitiesAreCheckPermission ==
    \A t \in Tasks :
        LET tk == tasks[t] IN
        /\ (IsCapabilities(tk) /\ tk.pc = "done") => tk.outcome.val # "PermissionError"
        /\ CapabilitiesReturned(tk) =>
            /\ {tk.rows[k].action : k \in DOMAIN tk.rows} = DOMAIN REQUIRED_PRIVILEGES
            /\ Len(tk.rows) = Cardinality(DOMAIN REQUIRED_PRIVILEGES)
            /\ \A k \in DOMAIN tk.rows :
                LET answer == CheckPermissionAnswer(tk.req.username, tk.rows[k].action)
                IN  /\ answer => tk.rows[k].value
                    /\ tk.faults = 0 => tk.rows[k].value = answer
            /\ Cardinality({k \in DOMAIN tk.rows :
                    tk.rows[k].value
                    /\ ~CheckPermissionAnswer(tk.req.username, tk.rows[k].action)})
                    <= tk.faults

\* a mapping with allowed and denied actions, returned without any failure
C21_Witness ==
    \E t \in Tasks :
        /\ CapabilitiesReturned(tasks[t])
        /\ tasks[t].faults = 0
        /\ \E k \in DOMAIN tasks[t].rows :
            tasks[t].rows[k].action = "drop_user" /\ tasks[t].rows[k].value
        /\ \E k \in DOMAIN tasks[t].rows :
            tasks[t].rows[k].action = "create_user" /\ ~tasks[t].rows[k].value
        /\ tasks[t].acq = 13 /\ tasks[t].rel = 13

(***************************************************************************)
(* C22.  When a grant and a revoke of the same (grantee, privilege, class) *)
(* tuple run concurrently, the core imposes no order between them: both    *)
(* dispatch orders are reachable, and in each the final catalog state is   *)
(* the one produced by whichever command the engine applied last (held if  *)
(* the grant was last, not held if the revoke was last).                   *)
(***************************************************************************)
BothDone == \A t \in DOMAIN tasks : tasks[t].pc = "done"

\* the call whose command the engine applied last, when it applied any
AppliedLast(t) ==
    /\ tasks[t].applied_at > 0
    /\ \A u \in DOMAIN tasks : tasks[u].applied_at <= tasks[t].applied_at

C22_LastAppliedWins ==
    \A t \in DOMAIN tasks :
        (BothDone /\ AppliedLast(t)) =>
            LET r == tasks[t].req IN
            GrantedDirectly(Upper(r.grantee), r.privilege)
                <=> r.op = "grant_system_privilege"

\* the grant sent and applied first, the revoke sent and applied second, and
\* the privilege no longer held
C22_Witness ==
    /\ BothDone
    /\ tasks[1].sent_at = 1 /\ tasks[2].sent_at = 2
    /\ tasks[1].applied_at = 1 /\ tasks[2].applied_at = 2
    /\ ~GrantedDirectly(s_BOB, s_CREATE_USER)

(***************************************************************************)
(* C23.  Grant/revoke operations that target different grantees are        *)
(* independent: for any two such operations, every interleaving of their   *)
(* steps yields the same final catalog state and the same outcome (success *)
(* or error) for each operation as running them one after the other in     *)
(* either order.                                                           *)
(***************************************************************************)
\* the catalog row a request is about, under the names the catalog uses
SysRowOf(r) ==
    [grantee |-> Upper(r.grantee), privilege |-> r.privilege, admin_option |-> "NO"]

RoleRowOf(r) ==
    [grantee |-> Upper(r.grantee), granted_role |-> Upper(r.role),
     admin_option |-> "NO"]

\* the engine's answer to a request that runs alone from the initial catalog
AloneVerdict(r) ==
    CASE r.op = "grant_system_privilege" -> "OK"
      [] r.op = "revoke_system_privilege" ->
            IF SysRowOf(r) \in SysPrivs0 THEN "OK" ELSE "ORA-01952"
      [] r.op = "grant_role" ->
            IF Upper(r.role) = Upper(r.grantee) THEN "ORA-01934" ELSE "OK"
      [] r.op = "revoke_role" ->
            IF RoleRowOf(r) \in RolePrivs0 THEN "OK" ELSE "ORA-01951"

\* the requests the engine applied
AppliedRequests(ops) ==
    {tasks[t].req : t \in {u \in DOMAIN tasks :
        tasks[u].req.op \in ops /\ tasks[u].diags = <<"OK">>}}

\* every call ended as it would have alone, whatever the other one did, and
\* the catalog is the initial one with the applied commands' rows added and
\* removed
SameAsOneAfterTheOther ==
    /\ \A t \in DOMAIN tasks :
        tasks[t].diags # <<>> =>
            /\ tasks[t].diags[1] \in {AloneVerdict(tasks[t].req), "ORA-01031"}
            /\ tasks[t].outcome =
                    IF tasks[t].diags[1] = "OK" THEN Return("None")
                    ELSE Raise("oracledb.Error", tasks[t].diags[1])
    /\ dba_sys_privs =
            (SysPrivs0 \ {SysRowOf(r) : r \in AppliedRequests({"revoke_system_privilege"})})
                \cup {SysRowOf(r) : r \in AppliedRequests({"grant_system_privilege"})}
    /\ dba_role_privs =
            (RolePrivs0 \ {RoleRowOf(r) : r \in AppliedRequests({"revoke_role"})})
                \cup {RoleRowOf(r) : r \in AppliedRequests({"grant_role"})}

DifferentGrantees == Upper(tasks[1].req.grantee) # Upper(tasks[2].req.grantee)

\* two grants of roles, each role being the other grant's grantee
MutualRoleGrants ==
    /\ tasks[1].req.op = "grant_role" /\ tasks[2].req.op = "grant_role"
    /\ Upper(tasks[1].req.role) = Upper(tasks[2].req.grantee)
    /\ Upper(tasks[2].req.role) = Upper(tasks[1].req.grantee)

ProfileExistsAnswered(tk) == tk.stage = "profile_exists" /\ tk.pc = "release"

C24_ReaderRaisesOnEngineFailure ==
    \A t \in Tasks :
        ProfileExistsAnswered(tasks[t]) =>
            IF tasks[t].query_failed
            THEN tasks[t].pending.kind = "raise"
            ELSE tasks[t].pending.kind = "return"
                 /\ (Upper(tasks[t].req.profile_name) \notin dba_profiles
                        => tasks[t].pending = Return("False"))

(***************************************************************************)
(* C29.  delete_profile never dispatches DROP PROFILE for the name DEFAULT *)
(* (in any letter case), for a profile its existence check reports as      *)
(* absent, or, when cascade is false, for a profile that its user query    *)
(* reports as assigned to at least one user; in each of these cases it     *)
(* raises a validation error instead.                                      *)
(***************************************************************************)
\* the existence check has answered "absent": its query failed, or the
\* catalog, which no command of this call has changed yet, lacks the profile
ReportedAbsent(tk) ==
    /\ tk.queries >= 1
    /\ ~ProfileExistsAnswered(tk) /\ ~(tk.stage = "profile_exists" /\ tk.pc = "query1")
    /\ tk.diags = <<>>
    /\ \/ Upper(tk.req.profile_name) \notin dba_profiles
       \/ tk.query_failed /\ tk.queries = 1

\* the user query has reported someone
ReportedAssigned(tk) == ~tk.req.cascade /\ tk.rows # <<>> /\ tk.pc = "done"

C29_NoDropOfReservedAbsentOrAssigned ==
    \A t \in Tasks :
        LET tk == tasks[t] IN
        (/\ tk.req.op = "delete_profile"
         /\ \/ Upper(tk.req.profile_name) = s_DEFAULT
            \/ ReportedAbsent(tk)
            \/ ReportedAssigned(tk))
            => /\ tk.cmds = <<>>
               /\ tk.pc = "done"
               /\ tk.outcome.val = "ValueError"

\* an existing profile with a user, not dropped without cascade
C29_Witness ==
    \E t \in Tasks :
        /\ tasks[t].req.op = "delete_profile"
        /\ ReportedAssigned(tasks[t])
        /\ Upper(tasks[t].req.profile_name) \in dba_profiles
        /\ tasks[t].outcome.val = "ValueError"
        /\ tasks[t].acq = 2 /\ tasks[t].rel = 2

(***************************************************************************)
(* C27.  When two create_profile calls for the same valid, not yet         *)
(* existing profile name run concurrently, at most one of them dispatches  *)
(* a CREATE PROFILE command; the other fails its existence check with the  *)
(* 'already exists' domain error and dispatches nothing.                   *)
(* Refuted by the code: both calls can pass the existence check before     *)
(* either has created the profile, and then both dispatch.                 *)
(***************************************************************************)
\* two create_profile calls for one profile, none of whose queries failed
SameProfileTwice ==
    /\ \A t \in DOMAIN tasks :
        /\ tasks[t].req.op = "create_profile"
        /\ ~tasks[t].query_failed /\ ~tasks[t].acq_failed
    /\ Upper(tasks[1].req.profile_name) = Upper(tasks[2].req.profile_name)

C27_AtMostOneCreateDispatched ==
    SameProfileTwice =>
        /\ \E t \in DOMAIN tasks : tasks[t].cmds = <<>>
        /\ BothDone =>
            \E t \in DOMAIN tasks :
                tasks[t].outcome = Raise("ValueError", "profile already exists")

(***************************************************************************)
(* C25.  UserService.update_user issues its ALTER USER statements one at a *)
(* time in the fixed order password, default tablespace, temporary         *)
(* tablespace, quota, profile, and stops at the first statement the engine *)
(* rejects; the statements applied before the failure remain in effect, so *)
(* the operation is not all-or-nothing.                                    *)
(***************************************************************************)
IsUpdateUser(tk) == tk.req.op = "update_user" /\ tk.stage = "alter_user_ddl"

\* the statements of a request in the claim's order, one per given argument
StatementsInFixedOrder(r) ==
    LET u == Upper(r.username)
        one(f) == IF r[f] = <<>> THEN <<>> ELSE <<alter_user_statement(u, r, f)>>
    IN  one("password") \o one("default_tablespace")
            \o one("temporary_tablespace") \o one("quota") \o one("profile")

\* the arguments of a request in the claim's order
FieldsInFixedOrder(r) ==
    LET one(f) == IF r[f] = <<>> THEN <<>> ELSE <<f>>
    IN  one("password") \o one("default_tablespace")
            \o one("temporary_tablespace") \o one("quota") \o one("profile")

C25_AlterStatementsInOrderNoRollback ==
    \A t \in DOMAIN tasks :
        LET tk == tasks[t]
            all == StatementsInFixedOrder(tk.req)
            n == Len(tk.cmds)
        IN  IsUpdateUser(tk) =>
                \* one at a time, in the fixed order
                /\ n <= Len(all) /\ tk.cmds = SubSeq(all, 1, n)
                /\ Len(tk.diags) \in {n - 1, n} \cup (IF n = 0 THEN {0} ELSE {})
                \* every statement but the last one sent was applied
                /\ \A k \in DOMAIN tk.diags : k < n => tk.diags[k] = "OK"
                \* it goes on until the engine rejects one
                /\ (tk.pc = "done" /\ ~tk.acq_failed /\ n < Len(all))
                        => tk.diags[n] # "OK"
                \* what was applied stays applied, whatever came after
                /\ \A k \in DOMAIN tk.diags :
                        tk.diags[k] = "OK" =>
                            \E a \in dba_users :
                                /\ a.username = Upper(tk.req.username)
                                /\ a[FieldsInFixedOrder(tk.req)[k]] =
                                    AlteredValue(tk.req, FieldsInFixedOrder(tk.req)[k])

\* update_user(alice, password, default tablespace, profile NOPE) has ended
\* with an error after its first two statements were applied: the account
\* keeps the new password and tablespace and its old profile
C25_Witness ==
    \E t \in DOMAIN tasks :
        LET tk == tasks[t] IN
        /\ IsUpdateUser(tk) /\ tk.pc = "done"
        /\ tk.outcome.kind = "raise"
        /\ tk.diags = <<"OK", "OK", "ORA-02380">>
        /\ \E a \in dba_users :
            /\ a.username = s_ALICE /\ a.password = s_pw
            /\ a.profile = s_DEFAULT

(***************************************************************************)
(* C26.  Each route handler in routes/security.py that acquires a pooled   *)
(* connection (vpd_page, audit_page, redaction_page) releases it on every  *)
(* exit path, including when a query raises after the connection was       *)
(* acquired, so that no sequence of failing requests can leave connections *)
(* checked out or exhaust the pool of 10.                                  *)
(* Refuted by the code: vpd_page releases only after its last query.       *)
(***************************************************************************)
NoRequestInFlight == \A t \in DOMAIN tasks : tasks[t].pc \in {"idle", "done"}

C26_SecurityPagesReleaseEveryConnection ==
    /\ NoRequestInFlight => checkedOut = 0
    /\ checkedOut < PoolMax

(***************************************************************************)
(* C28.  While the connection pool does not exist (before create_pool has  *)
(* run, or after close_pool), every mutating DAO operation (grant, revoke, *)
(* create, alter, drop) fails with the 'pool not initialised' RuntimeError *)
(* without dispatching any command and leaves the pool absent, whereas     *)
(* every catalog read query first creates the pool and then proceeds.      *)
(* Refuted by the code: UserDAO.query_user_privileges reads the catalog    *)
(* and does not create the pool.                                           *)
(***************************************************************************)
PoolNotInitialised == Raise("RuntimeError", "pool not initialised")

IsCatalogRead(tk) == tk.req.op \in {"get_grantee_privileges", "get_user_privileges"}

IsMutatingCall(tk) ==
    /\ tk.req.op \in {"grant_system_privilege", "revoke_system_privilege"}
    /\ tk.outcome.val # "ValueError"

\* a grant or revoke that got past its validation without a pool
MutatorsFailWithoutPool ==
    \A t \in DOMAIN tasks :
        LET tk == tasks[t] IN
        (tk.pc # "idle" /\ IsMutatingCall(tk) /\ ~pool) =>
            /\ tk.pc = "done" /\ tk.outcome = PoolNotInitialised
            /\ tk.cmds = <<>> /\ tk.acq = 0

\* a catalog read in progress or ended
ReadersCreateThePool ==
    \A t \in DOMAIN tasks :
        LET tk == tasks[t] IN
        (tk.pc # "idle" /\ IsCatalogRead(tk)) =>
            pool /\ tk.outcome # PoolNotInitialised

C28_MutatorsFailReadersCreateThePool ==
    MutatorsFailWithoutPool /\ ReadersCreateThePool

(***************************************************************************)
(* C30.  The login route stores a username in the session only if Oracle   *)
(* authentication with the supplied credentials succeeded, the bcrypt hash *)
(* matched whenever a user_info row was found for that username, the user  *)
(* exists in DBA_USERS, and the account status does not contain LOCKED; in *)
(* every other case the session is left unchanged.                         *)
(***************************************************************************)
IsLogin(tk) == tk.req.op = "login"

SessionChanged(tk) == tk.session # tk.req.session_username

\* the four conditions of the claim, on what the login saw
LoginConditions(tk) ==
    /\ tk.is_valid
    /\ tk.user_info # <<>> =>
            verify_password(tk.req.password, tk.user_info[1].password_hash)
    /\ tk.oracle_user # <<>>
    /\ tk.oracle_user[1].username = Upper(tk.req.username)
    /\ ~Contains(s_LOCKED, tk.oracle_user[1].account_status)

C30_SessionOnlyAfterFullLogin ==
    \A t \in DOMAIN tasks :
        LET tk == tasks[t] IN
        IsLogin(tk) =>
            /\ SessionChanged(tk) =>
                    /\ LoginConditions(tk)
                    /\ tk.pc = "done" /\ tk.outcome = Return("303")
                    /\ tk.session = tk.oracle_user[1].username
            \* Oracle accepted the credentials only if they are an account's
            /\ tk.is_valid =>
                    \/ \E a \in dba_users : /\ a.username = Upper(tk.req.username)
                                            /\ a.password = tk.req.password
                    \/ \A a \in dba_users : a.username # Upper(tk.req.username)

\* alice, who has a user_info row with the hash of her password, has logged
\* in over a session that held another username
C30_Witness ==
    \E t \in DOMAIN tasks :
        LET tk == tasks[t] IN
        /\ IsLogin(tk) /\ tk.pc = "done" /\ tk.outcome = Return("303")
        /\ tk.user_info # <<>>
        /\ tk.req.session_username = s_sys
        /\ tk.session = s_ALICE
====
